---- MODULE Spec2Model ----
(***************************************************************************)
(* lametric-power-bridge: power sources (Tibber cloud websocket,           *)
(* HomeWizard v1 HTTP poll, HomeWizard v2 local websocket, P1 serial),     *)
(* the LaMetric sink and the staleness monitor, as state machines.         *)
(*                                                                         *)
(* The bridge runs exactly one source, chosen at start (variable source);   *)
(* SpecSources is the stream of that one source, SpecMonitor the staleness *)
(* monitor with the stream consumer, SpecSink the sink with its two        *)
(* callers; Spec is their interleaving.                                    *)
(***************************************************************************)
EXTENDS Integers, Sequences, FiniteSets, TLC

None == "None"

Min(a, b) == IF a <= b THEN a ELSE b

RECURSIVE Pow2(_)
Pow2(n) == IF n <= 0 THEN 1 ELSE 2 * Pow2(n - 1)

(***************************************************************************)
(* Bounds of the model.                                                    *)
(***************************************************************************)
\* the clock of the staleness monitor runs from 0 to MaxTime
MaxTime == 7
\* staleness threshold in clock ticks (configured; 60 s by default)
StaleThreshold == 2
\* readings a source stream yields before the consumer stops asking
MaxReadings == 3
\* GET requests one HTTP poll stream issues
MaxRequests == 6
\* websocket connections one stream opens
MaxConns == 4
\* messages received on one websocket connection
MaxRecv == 4
\* telegram reads one serial stream makes
MaxTelegrams == 6
\* pushes one task sends to the sink
MaxPushes == 2

VARIABLES
    source,                 \* the one source the bridge runs
    \* --- staleness monitor (shared StalenessState) ---
    now,                    \* the clock
    last_reading_time,      \* written by the stream consumer
    alert_sent,             \* written by the monitor
    mon_stale_pushes,       \* stale indicators pushed to the sink so far
    mon_last_check,         \* history: what the latest check found
    mon_episodes,           \* history: staleness episodes the checks have seen
    mon_episode_pushes,     \* history: stale pushes in the current episode
    \* --- Local-HTTP-Poll: HomeWizardP1Source.stream ---
    hw1_state,              \* "polling" | "done"
    hw1_client,             \* "open" | "closed"
    hw1_consecutive_errors,
    hw1_retry_delay,        \* the delay variable retry_delay
    hw1_slept,              \* the delay actually slept before the next request
    hw1_requests,           \* GET requests issued by stream()
    hw1_out,                \* Readings yielded, in order
    hw1_last,               \* history: outcome of the latest request
    hw1_run,                \* history: the delays slept after the failures
                            \* since the latest Reading, in order
    hw1_resp,               \* history: the power values of the responses
                            \* that carried the field, in order
    hw1_nonbusy,            \* history: non-busy errors since the latest Reading
    \* --- Local-WS: HomeWizardV2Source.stream ---
    hw2_pc,                 \* "idle" | "connect" | "await_request" |
                            \* "await_response" | "data"
    hw2_host,               \* self.host
    hw2_ws_url,             \* self.ws_url
    hw2_connect_uri,        \* the uri websockets.connect(...) was called with
    hw2_peer,               \* the uri the latest connection was opened to
    hw2_consecutive_failures,
    hw2_conns,              \* connections opened so far
    hw2_trace,              \* history: events on the latest connection
    hw2_slept,              \* seconds slept since the latest connection ended
    hw2_discoveries,        \* re-discoveries run by stream()
    hw2_gap,                \* history: failures since the latest re-discovery
    hw2_found,              \* history: what the latest re-discovery returned:
                            \* "n/a" | "none" | "same" | "changed"
    hw2_rejections,         \* history: "error" replies to the token so far
    \* --- Cloud-WS: TibberSource.stream ---
    tib_pc,                 \* "connect" | "await_ack" | "data" | "done"
    tib_conns,
    tib_trace,
    tib_slept,
    \* --- Local-Serial: P1SerialSource.stream ---
    ser_state,              \* "streaming" | "done"
    ser_consecutive_errors,
    ser_reads,              \* calls of _read_telegram
    ser_out,                \* Readings yielded, in order
    ser_last,               \* history: outcome of the latest read
    ser_hist,               \* history: the outcomes of all reads, in order
    ser_slept,              \* the delay slept after the latest read
    \* --- Sink: LaMetricURLManager and send_http_payload, per calling task ---
    lm_discovered_ip,       \* self.discovered_ip
    lm_discovery_attempted, \* self.discovery_attempted
    lm_discoveries,         \* history: first discoveries started
    lm_pc,                  \* "idle" | "discovering" | "posting" |
                            \* "rediscovering" | "retrying"
    lm_url,                 \* the url the task posts to
    lm_pushes,              \* pushes the task has started
    lm_posts,               \* POSTs of the task's current push
    lm_rediscoveries,       \* rediscover() calls of the task's current push
    lm_first,               \* history: outcome of the push's first POST
    lm_could,               \* history: the endpoint was a discovered one
                            \* when the first POST failed
    lm_found,               \* history: what the push's rediscover() found
    lm_lost,                \* history: a rediscover() has found no device
    lm_api_key,             \* LAMETRIC_API_KEY is set
    lm_base_url,            \* LAMETRIC_URL is set
    lm_ended,               \* history: how the task's latest send_http_payload
                            \* ended: "n/a" | "returned" | "raised"
    lm_got,                 \* history: discovered_ip when the push's get_url
                            \* returned
    \* --- LaMetricURLManager._replace_host on its own ---
    rh_in,                  \* the url it was first given
    rh_out,                 \* the latest result
    rh_hosts,               \* the hosts substituted so far, in order
    \* --- SSDP search: _discover_lametric ---
    sd_pc,                  \* "start" | "listening" | "done"
    sd_result,              \* what _discover_lametric returns
    sd_replies,             \* history: the replies sent to the search within
                            \* the timeout, in order
    sd_elapsed,             \* the timeout has passed
    sd_transport,           \* the UDP transport: "none" | "open" | "closed"
    sd_set_results,         \* history: calls of future.set_result
    \* --- mDNS browse for the meter: discovery.discover_homewizard ---
    md_pc,                  \* "browsing" | "closing" | "done"
    md_discovered_ip,       \* the nonlocal discovered_ip
    md_result,              \* what discover_homewizard returns
    md_pending,             \* advertisements whose _async_add_service task is
                            \* waiting for the service info
    md_seen,                \* advertisements add_service was called with
    md_ads,                 \* history: the advertisements resolved, in order
    \* --- P1SerialSource._validate_crc on its own ---
    crc_telegram,           \* a telegram with the CRC16 of its bytes encoded in
                            \* its terminator line
    crc_given,              \* the telegram given to _validate_crc
    crc_at,                 \* the <<line, byte>> replaced in it, <<0, 0>>: none
    crc_valid,              \* what _validate_crc returned ("unknown": not run)
    \* --- P1SerialSource._parse_power on its own ---
    pp_telegram,            \* the list of lines given to _parse_power
    pp_result,              \* what it did ("unknown": not called)
    \* --- P1SerialSource._read_telegram, line by line ---
    cd_telegram,            \* the local telegram: the lines collected
    cd_in_telegram,         \* the local in_telegram
    cd_lines,               \* calls of ser.readline
    cd_last,                \* history: what the latest line led to
    cd_wire,                \* history: the bytes received since the latest
                            \* opening '/', <<>> when no telegram is open
    cd_sent,                \* history: at the latest CRC validation, the bytes
                            \* received from the opening '/' through the '!'
    cd_fed,                 \* history: the bytes that validation fed to the
                            \* CRC16
    cd_epoch,               \* history: the lines kept since the latest
                            \* telegram was returned, discarded or given up
    cd_returned,            \* history: the telegram returned most recently
    cd_port_open,           \* self.ser.is_open
    cd_reopens,             \* calls of self.ser.open() by stream()
    cd_silent,              \* the device sends nothing: every ser.readline
                            \* runs into the timeout and returns b''
    \* --- start of the process: get_source, connect(), first use of stream ---
    cn_name,                \* the source name the process was started with
    cn_token,               \* the credential of the source is configured
    cn_host,                \* the host of the source is configured
    cn_device,              \* the serial device path is configured
    cn_pc,                  \* "start" | "constructed" | "discovering" |
                            \* "bootstrapping" | "connected" | "streaming" |
                            \* "exited"
    cn_exit,                \* exit status of the process, -1 while it runs
    cn_ops,                 \* history: the network, discovery and serial
                            \* operations started, in order
    cn_homes,               \* history: the homes of the bootstrap response
    cn_wss_url,             \* TibberSource.wss_url
    cn_home_id,             \* TibberSource.home_id
    \* --- push_to_lametric, push_to_lametric_stale: the payloads ---
    fm_queue,               \* the pushes to come: Readings and stale alerts
    fm_pushed,              \* history: the pushes made, in order
    fm_sent,                \* the frames handed to send_http_payload, in order
    \* --- the stream-consumption loop: tibber_stream's data loop ---
    bl_configured,          \* LAMETRIC_URL and LAMETRIC_API_KEY are set
    bl_pc,                  \* "recv" | "pushing" | "reconnecting"
    bl_wire,                \* messages received by the socket, not yet taken
    bl_arrived,             \* messages the socket received so far
    bl_power,               \* the power of the message being handled
    bl_produced,            \* history: powers taken from the source, in order
    bl_posted,              \* history: powers POSTed to the sink, in order
    bl_completed,           \* history: powers whose push returned, in order
    \* --- discover_homewizard_p1 (discovery_mdns.py), and the discovery run ---
    dv_proto,               \* the discovery that is run: "ssdp" | "mdns"
    p1_pc,                  \* "polling" | "done"
    p1_found_ip,            \* listener.found_ip
    p1_slept,               \* time.sleep(0.1) calls of the polling loop
    p1_zc_open,             \* zeroconf and its browser are open
    p1_result,              \* what discover_homewizard_p1 returns
    p1_seen,                \* advertisements handed to add_service
    p1_first                \* history: the first address add_service accepted

monVars == <<now, last_reading_time, alert_sent, mon_stale_pushes,
             mon_last_check, mon_episodes, mon_episode_pushes>>
hw1Vars == <<hw1_state, hw1_client, hw1_consecutive_errors, hw1_retry_delay,
             hw1_slept, hw1_requests, hw1_out, hw1_last, hw1_run, hw1_resp,
             hw1_nonbusy>>

hw2Vars == <<hw2_pc, hw2_host, hw2_ws_url, hw2_connect_uri, hw2_peer,
             hw2_consecutive_failures, hw2_conns, hw2_trace, hw2_slept,
             hw2_discoveries, hw2_gap, hw2_found, hw2_rejections>>
tibVars == <<tib_pc, tib_conns, tib_trace, tib_slept>>
serVars == <<ser_state, ser_consecutive_errors, ser_reads, ser_out, ser_last,
             ser_hist, ser_slept>>

lmVars == <<lm_discovered_ip, lm_discovery_attempted, lm_discoveries, lm_pc,
            lm_url, lm_pushes, lm_posts, lm_rediscoveries, lm_first, lm_could,
            lm_found, lm_got, lm_lost, lm_api_key, lm_base_url, lm_ended>>

\* the bridge's components, and the routines checked on their own
coreVars == <<source, monVars, hw1Vars, hw2Vars, tibVars, serVars, lmVars>>
urlVars == <<rh_in, rh_out, rh_hosts>>
ssdpVars == <<sd_pc, sd_result, sd_replies, sd_elapsed, sd_transport,
              sd_set_results>>
mdnsVars == <<md_pc, md_discovered_ip, md_result, md_pending, md_seen, md_ads>>
crcVars == <<crc_telegram, crc_given, crc_at, crc_valid>>
ppVars == <<pp_telegram, pp_result>>
cdVars == <<cd_telegram, cd_in_telegram, cd_lines, cd_last, cd_wire, cd_sent,
            cd_fed, cd_epoch, cd_returned, cd_port_open, cd_reopens,
            cd_silent>>
cnVars == <<cn_name, cn_token, cn_host, cn_device, cn_pc, cn_exit, cn_ops,
            cn_homes, cn_wss_url, cn_home_id>>
fmVars == <<fm_queue, fm_pushed, fm_sent>>
blVars == <<bl_configured, bl_pc, bl_wire, bl_arrived, bl_power, bl_produced,
            bl_posted, bl_completed>>
dvVars == <<dv_proto, p1_pc, p1_found_ip, p1_slept, p1_zc_open, p1_result,
            p1_seen, p1_first>>
auxVars == <<urlVars, ssdpVars, mdnsVars, crcVars, ppVars, cdVars, cnVars, fmVars,
             blVars, dvVars>>

vars == <<coreVars, auxVars>>

\* bridge.get_source: the names of the sources
Sources == {"tibber", "homewizard-v1", "homewizard-v2", "p1-serial"}

(***************************************************************************)
(* Staleness monitor.  The orchestrator that holds it is not among the     *)
(* sources; it is modelled from its specification: a periodic check        *)
(* compares now with last_reading_time, alerts once and re-arms on fresh   *)
(* data.  The stale indicator itself is push_to_lametric_stale.            *)
(***************************************************************************)
MonInit ==
    /\ now = 0
    /\ last_reading_time = 0
    /\ alert_sent = FALSE
    /\ mon_stale_pushes = 0
    /\ mon_last_check = "none"
    /\ mon_episodes = 0
    /\ mon_episode_pushes = 0

\* the check's alert condition: too old and not alerted yet
ShouldAlertMutant(age, sent) == age > StaleThreshold
ShouldAlert(age, sent) == age > StaleThreshold /\ ~sent

\* the check's re-arm condition: age back under the threshold
ShouldClearMutant(age) == FALSE
ShouldClear(age) == age <= StaleThreshold

\* time passes
Tick ==
    /\ now < MaxTime
    /\ now' = now + 1
    /\ UNCHANGED <<last_reading_time, alert_sent, mon_stale_pushes,
                   mon_last_check, mon_episodes, mon_episode_pushes>>
    /\ UNCHANGED <<source, hw1Vars, hw2Vars, tibVars, serVars, lmVars, auxVars>>

\* the stream consumer got a Reading: it is the sole writer of the timestamp
ReadingArrives ==
    /\ last_reading_time /= now
    /\ last_reading_time' = now
    /\ UNCHANGED <<now, alert_sent, mon_stale_pushes,
                   mon_last_check, mon_episodes, mon_episode_pushes>>
    /\ UNCHANGED <<source, hw1Vars, hw2Vars, tibVars, serVars, lmVars, auxVars>>

\* one periodic check of the monitor
MonitorCheckMutant ==
    LET age == now - last_reading_time
        stale == age > StaleThreshold
        fire == ShouldAlert(age, alert_sent)
        pushed == IF fire THEN 1 ELSE 0
    IN  /\ alert_sent' = IF fire THEN TRUE
                         ELSE IF ShouldClear(age) THEN FALSE
                         ELSE alert_sent
        /\ mon_stale_pushes' = mon_stale_pushes + pushed
        /\ mon_last_check' = IF stale THEN "stale" ELSE "fresh"
        /\ mon_episodes' = IF stale /\ mon_last_check /= "stale"
                           THEN mon_episodes + 1 ELSE mon_episodes
        /\ mon_episode_pushes' =
              IF ~stale THEN 0
              ELSE IF mon_last_check /= "stale" THEN pushed
              ELSE mon_episode_pushes + pushed
        /\ last_reading_time' = IF fire THEN now ELSE last_reading_time
        /\ UNCHANGED now
        /\ UNCHANGED <<source, hw1Vars, hw2Vars, tibVars, serVars, lmVars, auxVars>>
MonitorCheck ==
    LET age == now - last_reading_time
        stale == age > StaleThreshold
        fire == ShouldAlert(age, alert_sent)
        pushed == IF fire THEN 1 ELSE 0
    IN  /\ alert_sent' = IF fire THEN TRUE
                         ELSE IF ShouldClear(age) THEN FALSE
                         ELSE alert_sent
        /\ mon_stale_pushes' = mon_stale_pushes + pushed
        /\ mon_last_check' = IF stale THEN "stale" ELSE "fresh"
        /\ mon_episodes' = IF stale /\ mon_last_check /= "stale"
                           THEN mon_episodes + 1 ELSE mon_episodes
        /\ mon_episode_pushes' =
              IF ~stale THEN 0
              ELSE IF mon_last_check /= "stale" THEN pushed
              ELSE mon_episode_pushes + pushed
        /\ UNCHANGED <<now, last_reading_time>>
        /\ UNCHANGED <<source, hw1Vars, hw2Vars, tibVars, serVars, lmVars, auxVars>>

NextMonitor == Tick \/ ReadingArrives \/ MonitorCheck

(***************************************************************************)
(* Local-HTTP-Poll: HomeWizardP1Source.stream (sources/homewizard_p1.py).  *)
(* One action per outcome of the GET of one loop iteration.                *)
(***************************************************************************)
\* HomeWizardP1Source.__init__ defaults
poll_interval == 1
max_retries == 3
\* cap of the backoff, seconds
BACKOFF_CAP == 30

Powers == {1500, -500, 0}

Hw1Init ==
    /\ hw1_state = "polling"
    /\ hw1_client = "open"
    /\ hw1_consecutive_errors = 0
    /\ hw1_retry_delay = poll_interval
    /\ hw1_slept = 0
    /\ hw1_requests = 0
    /\ hw1_out = <<>>
    /\ hw1_last = "none"
    /\ hw1_run = <<>>
    /\ hw1_resp = <<>>
    /\ hw1_nonbusy = 0

\* retry_delay = min(poll_interval * (2 ** consecutive_errors), 30)
BackoffMutant(errors) == poll_interval * Pow2(errors)
Backoff(errors) == Min(poll_interval * Pow2(errors), BACKOFF_CAP)

\* if consecutive_errors >= self.max_retries: break
RetriesExhaustedMutant(errors) == errors > max_retries
RetriesExhausted(errors) == errors >= max_retries

\* response.status_code in (429, 503)
Hw1Busy ==
    /\ source = "homewizard-v1"
    /\ hw1_state = "polling"
    /\ hw1_requests < MaxRequests
    /\ hw1_requests' = hw1_requests + 1
    /\ hw1_consecutive_errors' = hw1_consecutive_errors + 1
    /\ hw1_retry_delay' = Backoff(hw1_consecutive_errors + 1)
    /\ hw1_slept' = Backoff(hw1_consecutive_errors + 1)
    /\ hw1_last' = "busy"
    /\ hw1_run' = Append(hw1_run, Backoff(hw1_consecutive_errors + 1))
    /\ UNCHANGED <<hw1_state, hw1_client, hw1_out, hw1_resp, hw1_nonbusy>>
    /\ UNCHANGED <<source, monVars, hw2Vars, tibVars, serVars, lmVars, auxVars>>

\* PowerReading(power_watts=float(active_power), timestamp=None)
Hw1PowerReadingMutant(active_power) ==
    [power_watts |-> IF active_power < 0 THEN 0 - active_power ELSE active_power,
     timestamp |-> None]
Hw1PowerReading(active_power) == [power_watts |-> active_power, timestamp |-> None]

\* 200 with active_power_w: reset, yield, sleep poll_interval
Hw1Reading(p) ==
    /\ source = "homewizard-v1"
    /\ hw1_state = "polling"
    /\ hw1_requests < MaxRequests
    /\ Len(hw1_out) < MaxReadings
    /\ hw1_requests' = hw1_requests + 1
    /\ hw1_consecutive_errors' = 0
    /\ hw1_retry_delay' = poll_interval
    /\ hw1_out' = Append(hw1_out, Hw1PowerReading(p))
    /\ hw1_slept' = poll_interval
    /\ hw1_last' = "reading"
    /\ hw1_run' = <<>>
    /\ hw1_resp' = Append(hw1_resp, p)
    /\ hw1_nonbusy' = 0
    /\ UNCHANGED <<hw1_state, hw1_client>>
    /\ UNCHANGED <<source, monVars, hw2Vars, tibVars, serVars, lmVars, auxVars>>

\* 200 without active_power_w: logged, sleep poll_interval
Hw1NoField ==
    /\ source = "homewizard-v1"
    /\ hw1_state = "polling"
    /\ hw1_requests < MaxRequests
    /\ hw1_requests' = hw1_requests + 1
    /\ hw1_slept' = poll_interval
    /\ hw1_last' = "nofield"
    /\ UNCHANGED <<hw1_state, hw1_client, hw1_consecutive_errors,
                   hw1_retry_delay, hw1_out, hw1_run, hw1_resp, hw1_nonbusy>>
    /\ UNCHANGED <<source, monVars, hw2Vars, tibVars, serVars, lmVars, auxVars>>

\* HTTPStatusError, ConnectError or any other exception: the three handlers
\* do the same; after the loop the client is closed
Hw1Error(kind) ==
    /\ source = "homewizard-v1"
    /\ hw1_state = "polling"
    /\ hw1_requests < MaxRequests
    /\ hw1_requests' = hw1_requests + 1
    /\ hw1_consecutive_errors' = hw1_consecutive_errors + 1
    /\ hw1_last' = kind
    /\ IF RetriesExhausted(hw1_consecutive_errors + 1)
       THEN /\ hw1_state' = "done"
            /\ hw1_client' = "closed"
            /\ UNCHANGED <<hw1_retry_delay, hw1_slept, hw1_run>>
       ELSE /\ hw1_retry_delay' = Backoff(hw1_consecutive_errors + 1)
            /\ hw1_slept' = Backoff(hw1_consecutive_errors + 1)
            /\ hw1_run' = Append(hw1_run, Backoff(hw1_consecutive_errors + 1))
            /\ UNCHANGED <<hw1_state, hw1_client>>
    /\ hw1_nonbusy' = hw1_nonbusy + 1
    /\ UNCHANGED <<hw1_out, hw1_resp>>
    /\ UNCHANGED <<source, monVars, hw2Vars, tibVars, serVars, lmVars, auxVars>>

ErrorKinds == {"status_error", "connect_error", "other_error"}

NextHttp ==
    \/ Hw1Busy
    \/ \E p \in Powers : Hw1Reading(p)
    \/ Hw1NoField
    \/ \E k \in ErrorKinds : Hw1Error(k)

(***************************************************************************)
(* Websocket connections.  The events of one connection are kept in a      *)
(* trace: <<"send", type>>, <<"recv", type>> and <<"yield", type>>.        *)
(***************************************************************************)
Sent(type) == <<"send", type>>
Recv(type) == <<"recv", type>>
Yield == <<"yield", "reading">>

RecvCount(trace) == Cardinality({i \in 1..Len(trace) : trace[i][1] = "recv"})

Has(trace, e) == \E i \in 1..Len(trace) : trace[i] = e

\* e happens in the trace only after an earlier d
OnlyAfter(trace, e, d) ==
    \A i \in 1..Len(trace) : trace[i] = e => \E j \in 1..(i - 1) : trace[j] = d

\* await asyncio.sleep(5) of the reconnect paths
RECONNECT_DELAY == 5

(***************************************************************************)
(* Local-WS: HomeWizardV2Source.stream (sources/homewizard_v2.py).         *)
(* `async for websocket in websockets.connect(self.ws_url, ...)` evaluates *)
(* its argument once, when the loop starts: every connection of the loop   *)
(* is opened to that uri.  A connection that cannot be opened is retried   *)
(* inside websockets.connect and never reaches the loop body.              *)
(***************************************************************************)
Hosts == {"192.168.2.87", "192.168.2.88"}

\* f"wss://{host}/api/ws"
WsUrl(host) == <<"wss", host, "/api/ws">>

\* no uri yet
NoUri == <<"none", "none", "none">>

\* max_failures = 3 in stream()
max_failures == 3

Hw2Init ==
    /\ hw2_pc = "idle"
    /\ hw2_host = "192.168.2.87"
    /\ hw2_ws_url = WsUrl("192.168.2.87")
    /\ hw2_connect_uri = NoUri
    /\ hw2_peer = NoUri
    /\ hw2_consecutive_failures = 0
    /\ hw2_conns = 0
    /\ hw2_trace = <<>>
    /\ hw2_slept = 0
    /\ hw2_discoveries = 0
    /\ hw2_gap = 0
    /\ hw2_found = "n/a"
    /\ hw2_rejections = 0

\* msg.get("type") != "authorization_requested" is the rejecting branch
IsAuthRequestMutant(m) == TRUE
IsAuthRequest(m) == m = "authorization_requested"

\* resp_msg.get("type") == "authorized"
IsAuthorizedMutant(m) == m \in {"authorized", "error"}
IsAuthorized(m) == m = "authorized"

\* stream() is called: the reconnect loop is set up on the current ws_url
Hw2StreamStart ==
    /\ source = "homewizard-v2"
    /\ hw2_pc = "idle"
    /\ hw2_connect_uri' = hw2_ws_url
    /\ hw2_consecutive_failures' = 0
    /\ hw2_pc' = "connect"
    /\ UNCHANGED <<hw2_host, hw2_ws_url, hw2_peer, hw2_conns, hw2_trace,
                   hw2_slept, hw2_discoveries, hw2_gap,
                   hw2_found, hw2_rejections>>
    /\ UNCHANGED <<source, monVars, hw1Vars, tibVars, serVars, lmVars, auxVars>>

\* the reconnect loop hands out the next connection
Hw2Connect ==
    /\ source = "homewizard-v2"
    /\ hw2_pc = "connect"
    /\ hw2_conns < MaxConns
    /\ hw2_conns' = hw2_conns + 1
    /\ hw2_peer' = hw2_connect_uri
    /\ hw2_trace' = <<>>
    /\ hw2_pc' = "await_request"
    /\ UNCHANGED <<hw2_host, hw2_ws_url, hw2_connect_uri,
                   hw2_consecutive_failures, hw2_slept, hw2_discoveries, hw2_gap,
                   hw2_found,
                   hw2_rejections>>
    /\ UNCHANGED <<source, monVars, hw1Vars, tibVars, serVars, lmVars, auxVars>>

\* STEP A and B: the first message; answer an authorization request with the
\* token, otherwise sleep 5 and take the next connection
Hw2AuthRequest(m) ==
    /\ source = "homewizard-v2"
    /\ hw2_pc = "await_request"
    /\ IF IsAuthRequest(m)
       THEN /\ hw2_trace' = hw2_trace \o <<Recv(m), Sent("authorization")>>
            /\ hw2_pc' = "await_response"
            /\ UNCHANGED hw2_slept
       ELSE /\ hw2_trace' = Append(hw2_trace, Recv(m))
            /\ hw2_slept' = RECONNECT_DELAY
            /\ hw2_pc' = "connect"
    /\ UNCHANGED <<hw2_host, hw2_ws_url, hw2_connect_uri, hw2_peer,
                   hw2_consecutive_failures, hw2_conns, hw2_discoveries, hw2_gap,
                   hw2_found,
                   hw2_rejections>>
    /\ UNCHANGED <<source, monVars, hw1Vars, tibVars, serVars, lmVars, auxVars>>

\* STEP C and D: the reply to the token; subscribe when authorized, otherwise
\* ("error" or anything else) sleep 5 and take the next connection
Hw2AuthResponse(m) ==
    /\ source = "homewizard-v2"
    /\ hw2_pc = "await_response"
    /\ IF IsAuthorized(m)
       THEN /\ hw2_trace' = hw2_trace \o <<Recv(m), Sent("subscribe")>>
            /\ hw2_pc' = "data"
            /\ UNCHANGED hw2_slept
       ELSE /\ hw2_trace' = Append(hw2_trace, Recv(m))
            /\ hw2_slept' = RECONNECT_DELAY
            /\ hw2_pc' = "connect"
    /\ hw2_rejections' = IF m = "error" THEN hw2_rejections + 1
                         ELSE hw2_rejections
    /\ UNCHANGED <<hw2_host, hw2_ws_url, hw2_connect_uri, hw2_peer,
                   hw2_consecutive_failures, hw2_conns, hw2_discoveries, hw2_gap,
                   hw2_found>>
    /\ UNCHANGED <<source, monVars, hw1Vars, tibVars, serVars, lmVars, auxVars>>

Hw2DataTypes == {"measurement", "measurement_without_power", "error", "system"}

\* if msg_type == "measurement" ... if power is not None: yield
Hw2YieldsMutant(m) == m \in {"measurement", "system"}
Hw2Yields(m) == m = "measurement"

\* STEP E: one message of the data loop; only a measurement that carries
\* power_w yields
Hw2Message(m) ==
    /\ source = "homewizard-v2"
    /\ hw2_pc = "data"
    /\ RecvCount(hw2_trace) < MaxRecv
    /\ hw2_trace' = IF Hw2Yields(m)
                    THEN hw2_trace \o <<Recv(m), Yield>>
                    ELSE Append(hw2_trace, Recv(m))
    /\ UNCHANGED <<hw2_pc, hw2_host, hw2_ws_url, hw2_connect_uri, hw2_peer,
                   hw2_consecutive_failures, hw2_conns, hw2_slept,
                   hw2_discoveries, hw2_gap,
                   hw2_found, hw2_rejections>>
    /\ UNCHANGED <<source, monVars, hw1Vars, tibVars, serVars, lmVars, auxVars>>

\* the peer closes the connection normally: `async for message in websocket`
\* ends without an exception, the counter is reset and the next connection
\* is taken at once
Hw2ClosedOK ==
    /\ source = "homewizard-v2"
    /\ hw2_pc = "data"
    /\ hw2_consecutive_failures' = 0
    /\ hw2_slept' = 0
    /\ hw2_pc' = "connect"
    /\ UNCHANGED <<hw2_host, hw2_ws_url, hw2_connect_uri, hw2_peer, hw2_conns,
                   hw2_trace, hw2_discoveries, hw2_gap,
                   hw2_found, hw2_rejections>>
    /\ UNCHANGED <<source, monVars, hw1Vars, tibVars, serVars, lmVars, auxVars>>

\* if consecutive_failures >= max_failures: re-discovery
NeedsRediscoveryMutant(failures) == failures = max_failures
NeedsRediscovery(failures) == failures >= max_failures

\* ConnectionClosed or any other exception in the loop body (the two handlers
\* change the state alike): count, after max_failures re-discover (d is what
\* discover_homewizard returns) and swap host and ws_url if d is a new
\* address, then sleep 5 and take the next connection
Hw2Failure(kind, d) ==
    /\ source = "homewizard-v2"
    /\ hw2_pc \in {"await_request", "await_response", "data"}
    /\ hw2_trace' = Append(hw2_trace, <<"fail", kind>>)
    /\ IF NeedsRediscovery(hw2_consecutive_failures + 1)
       THEN /\ hw2_discoveries' = hw2_discoveries + 1
            /\ hw2_gap' = 0
            /\ hw2_found' = IF d = None THEN "none"
                             ELSE IF d = hw2_host THEN "same" ELSE "changed"
            /\ IF d /= None /\ d /= hw2_host
               THEN /\ hw2_host' = d
                    /\ hw2_ws_url' = WsUrl(d)
                    /\ hw2_consecutive_failures' = 0
               ELSE /\ hw2_consecutive_failures' = hw2_consecutive_failures + 1
                    /\ UNCHANGED <<hw2_host, hw2_ws_url>>
       ELSE /\ d = None
            /\ hw2_consecutive_failures' = hw2_consecutive_failures + 1
            /\ UNCHANGED <<hw2_host, hw2_ws_url, hw2_discoveries, hw2_found>>
            /\ hw2_gap' = hw2_gap + 1
    /\ hw2_slept' = RECONNECT_DELAY
    /\ hw2_pc' = "connect"
    /\ UNCHANGED <<hw2_connect_uri, hw2_peer, hw2_conns, hw2_rejections>>
    /\ UNCHANGED <<source, monVars, hw1Vars, tibVars, serVars, lmVars, auxVars>>

FailureKinds == {"connection_closed", "exception"}

NextWs ==
    \/ Hw2StreamStart
    \/ Hw2Connect
    \/ \E m \in {"authorization_requested", "system"} : Hw2AuthRequest(m)
    \/ \E m \in {"authorized", "error", "system"} : Hw2AuthResponse(m)
    \/ \E m \in Hw2DataTypes : Hw2Message(m)
    \/ Hw2ClosedOK
    \/ \E k \in FailureKinds, d \in Hosts \cup {None} : Hw2Failure(k, d)

(***************************************************************************)
(* Cloud-WS: TibberSource.stream (sources/tibber.py).                      *)
(***************************************************************************)
TibInit ==
    /\ tib_pc = "connect"
    /\ tib_conns = 0
    /\ tib_trace = <<>>
    /\ tib_slept = 0

\* msg.get("type") == "connection_ack"
IsAckMutant(m) == m /= "connection_error"
IsAck(m) == m = "connection_ack"

\* msg.get("type") == "connection_error"
IsConnectionErrorMutant(m) == FALSE
IsConnectionError(m) == m = "connection_error"

\* the reconnect loop hands out the next connection; STEP A sends
\* connection_init with the token
TibConnect ==
    /\ source = "tibber"
    /\ tib_pc = "connect"
    /\ tib_conns < MaxConns
    /\ tib_conns' = tib_conns + 1
    /\ tib_trace' = <<Sent("connection_init")>>
    /\ tib_pc' = "await_ack"
    /\ UNCHANGED tib_slept
    /\ UNCHANGED <<source, monVars, hw1Vars, hw2Vars, serVars, lmVars, auxVars>>

\* STEP B and C: one message while waiting for the ack: the ack is answered
\* with subscribe, connection_error returns from stream(), anything else is
\* read over
TibAck(m) ==
    /\ source = "tibber"
    /\ tib_pc = "await_ack"
    /\ RecvCount(tib_trace) < MaxRecv
    /\ IF IsAck(m)
       THEN /\ tib_trace' = tib_trace \o <<Recv(m), Sent("subscribe")>>
            /\ tib_pc' = "data"
       ELSE /\ tib_trace' = Append(tib_trace, Recv(m))
            /\ tib_pc' = IF IsConnectionError(m) THEN "done" ELSE "await_ack"
    /\ UNCHANGED <<tib_conns, tib_slept>>
    /\ UNCHANGED <<source, monVars, hw1Vars, hw2Vars, serVars, lmVars, auxVars>>

TibDataTypes == {"next", "next_without_power", "error", "complete", "ka"}

\* STEP D: one message of the data loop: a next that carries power yields,
\* complete leaves the loop and the next connection is taken at once
TibMessage(m) ==
    /\ source = "tibber"
    /\ tib_pc = "data"
    /\ RecvCount(tib_trace) < MaxRecv
    /\ tib_trace' = IF m = "next"
                    THEN tib_trace \o <<Recv(m), Yield>>
                    ELSE Append(tib_trace, Recv(m))
    /\ IF m = "complete"
       THEN tib_pc' = "connect" /\ tib_slept' = 0
       ELSE UNCHANGED <<tib_pc, tib_slept>>
    /\ UNCHANGED tib_conns
    /\ UNCHANGED <<source, monVars, hw1Vars, hw2Vars, serVars, lmVars, auxVars>>

\* the peer closes the connection normally during the data loop: the loop
\* ends without an exception and the next connection is taken at once
TibClosedOK ==
    /\ source = "tibber"
    /\ tib_pc = "data"
    /\ tib_trace' = Append(tib_trace, <<"closed", "ok">>)
    /\ tib_slept' = 0
    /\ tib_pc' = "connect"
    /\ UNCHANGED tib_conns
    /\ UNCHANGED <<source, monVars, hw1Vars, hw2Vars, serVars, lmVars, auxVars>>

\* ConnectionClosed or any other exception in the loop body: sleep 5, then
\* the next connection
TibFailure(kind) ==
    /\ source = "tibber"
    /\ tib_pc \in {"await_ack", "data"}
    /\ tib_trace' = Append(tib_trace, <<"fail", kind>>)
    /\ tib_slept' = RECONNECT_DELAY
    /\ tib_pc' = "connect"
    /\ UNCHANGED tib_conns
    /\ UNCHANGED <<source, monVars, hw1Vars, hw2Vars, serVars, lmVars, auxVars>>

NextTibber ==
    \/ TibConnect
    \/ \E m \in {"connection_ack", "connection_error", "ka"} : TibAck(m)
    \/ \E m \in TibDataTypes : TibMessage(m)
    \/ TibClosedOK
    \/ \E k \in FailureKinds : TibFailure(k)

(***************************************************************************)
(* Local-Serial: P1SerialSource.stream (sources/p1_serial.py), one action  *)
(* per outcome of one loop iteration.  _read_telegram catches every        *)
(* exception of the serial read itself and returns None, so the loop sees  *)
(* a telegram, None, or an exception raised by _parse_power (float() on a  *)
(* malformed value).                                                       *)
(***************************************************************************)
\* P1SerialSource.__init__ default
ser_max_retries == 5
\* await asyncio.sleep(1) after a read that returned None
NO_TELEGRAM_DELAY == 1
\* await asyncio.sleep(2) in the exception handlers
READ_ERROR_DELAY == 2

SerInit ==
    /\ ser_state = "streaming"
    /\ ser_consecutive_errors = 0
    /\ ser_reads = 0
    /\ ser_out = <<>>
    /\ ser_last = "none"
    /\ ser_hist = <<>>
    /\ ser_slept = 0

\* if consecutive_errors >= self.max_retries: break
SerRetriesExhaustedMutant(errors) == errors > ser_max_retries
SerRetriesExhausted(errors) == errors >= ser_max_retries

\* _read_telegram returned None, or _parse_power raised: count, give up at
\* max_retries, otherwise sleep and read again
SerFailedReadStep(kind) ==
    /\ source = "p1-serial"
    /\ ser_state = "streaming"
    /\ ser_reads < MaxTelegrams
    /\ ser_reads' = ser_reads + 1
    /\ ser_consecutive_errors' = ser_consecutive_errors + 1
    /\ ser_last' = kind
    /\ ser_hist' = Append(ser_hist, kind)
    /\ IF SerRetriesExhausted(ser_consecutive_errors + 1)
       THEN ser_state' = "done" /\ UNCHANGED ser_slept
       ELSE /\ ser_slept' = IF kind = "no_telegram" THEN NO_TELEGRAM_DELAY
                            ELSE READ_ERROR_DELAY
            /\ UNCHANGED ser_state
    /\ UNCHANGED ser_out

SerFailedRead(kind) ==
    /\ SerFailedReadStep(kind)
    /\ UNCHANGED <<source, monVars, hw1Vars, hw2Vars, tibVars, lmVars, auxVars>>

\* a valid telegram with a power code: reset the counter and yield
SerReadingStep(p) ==
    /\ source = "p1-serial"
    /\ ser_state = "streaming"
    /\ ser_reads < MaxTelegrams
    /\ Len(ser_out) < MaxReadings
    /\ ser_reads' = ser_reads + 1
    /\ ser_consecutive_errors' = 0
    /\ ser_out' = Append(ser_out, [power_watts |-> p, timestamp |-> None])
    /\ ser_last' = "reading"
    /\ ser_hist' = Append(ser_hist, "reading")
    /\ ser_slept' = 0
    /\ UNCHANGED ser_state

SerReading(p) ==
    /\ SerReadingStep(p)
    /\ UNCHANGED <<source, monVars, hw1Vars, hw2Vars, tibVars, lmVars, auxVars>>

\* a valid telegram without power codes: logged, read on
SerNoPowerStepMutant ==
    /\ source = "p1-serial"
    /\ ser_state = "streaming"
    /\ ser_reads < MaxTelegrams
    /\ ser_reads' = ser_reads + 1
    /\ ser_last' = "no_power"
    /\ ser_hist' = Append(ser_hist, "no_power")
    /\ ser_slept' = 0
    /\ ser_consecutive_errors' = 0
    /\ UNCHANGED <<ser_state, ser_out>>

SerNoPowerStep ==
    /\ source = "p1-serial"
    /\ ser_state = "streaming"
    /\ ser_reads < MaxTelegrams
    /\ ser_reads' = ser_reads + 1
    /\ ser_last' = "no_power"
    /\ ser_hist' = Append(ser_hist, "no_power")
    /\ ser_slept' = 0
    /\ UNCHANGED <<ser_state, ser_consecutive_errors, ser_out>>

SerNoPower ==
    /\ SerNoPowerStep
    /\ UNCHANGED <<source, monVars, hw1Vars, hw2Vars, tibVars, lmVars, auxVars>>

NextSerial ==
    \/ \E k \in {"no_telegram", "parse_error"} : SerFailedRead(k)
    \/ \E p \in Powers : SerReading(p)
    \/ SerNoPower

(***************************************************************************)
(* Sink: send_http_payload with LaMetricURLManager (sinks/lametric.py).    *)
(* push_to_lametric is called by the stream task, push_to_lametric_stale   *)
(* by the monitor task; both end in send_http_payload on the one URL       *)
(* manager, and a task can be suspended at each await (SSDP discovery,     *)
(* POST in a thread).                                                      *)
(***************************************************************************)
Tasks == {"stream", "monitor"}

\* addresses an SSDP search can return
LmAddresses == {"192.168.2.10", "192.168.2.11"}

\* LAMETRIC_URL, as urlparse splits it: scheme, netloc (userinfo, host and
\* port as written), path, params, query, fragment
LAMETRIC_URL ==
    [scheme |-> "http", userinfo |-> "", host |-> "192.168.2.2", port |-> "8080",
     path |-> "/api/v2/widget/update/com.lametric.diy.devwidget/f3b7537fe7",
     params |-> "", query |-> "", fragment |-> ""]

\* the ports a url is written with ("": none); urlparse(url).port is the
\* number, without a port it is None, written NoPort here
NoPort == -1
PortStrings == {"", "0", "8080", "9999", "08080"}
ParsePort(s) ==
    CASE s = "" -> NoPort
      [] s = "0" -> 0
      [] s = "8080" -> 8080
      [] s = "9999" -> 9999
      [] s = "08080" -> 8080

\* f"{port}" of a number
FormatPort(n) ==
    CASE n = 0 -> "0"
      [] n = 8080 -> "8080"
      [] n = 9999 -> "9999"

\* port = parsed.port or 8080
DEFAULT_PORT == 8080
PortOrDefaultMutant(port) == IF port = NoPort THEN 0 ELSE port
PortOrDefault(port) == IF port = NoPort \/ port = 0 THEN DEFAULT_PORT ELSE port

\* LaMetricURLManager._replace_host: the netloc becomes f"{new_ip}:{port}",
\* the other five parts go to urlunparse as parsed
_replace_host(url, new_ip) ==
    [url EXCEPT !.userinfo = "",
                !.host = new_ip,
                !.port = FormatPort(PortOrDefault(ParsePort(url.port)))]

\* LaMetricURLManager.can_rediscover
can_rediscoverMutant(ip) == TRUE
can_rediscover(ip) == ip /= None

\* get_url: if not self.discovery_attempted
NeedsDiscoveryMutant(attempted) == TRUE
NeedsDiscovery(attempted) == ~attempted

\* what get_url returns once discovery has been attempted
CurrentUrlMutant(ip) == LAMETRIC_URL
CurrentUrl(ip) == IF ip /= None THEN _replace_host(LAMETRIC_URL, ip) ELSE LAMETRIC_URL

\* the exception a POST that fails raises: requests' ConnectionError (a
\* connect timeout is one), or an HTTPError of raise_for_status (a read
\* timeout is caught like it)
ExceptionOf(outcome) ==
    IF outcome = "connection_error" THEN "ConnectionError" ELSE "HTTPError"

\* the except clauses around get_url and the first POST, and around the
\* retried POST
SendHandlers == {"ValueError", "ConnectionError", "Exception"}
RetryHandlersMutant == {}
RetryHandlers == {"Exception"}

\* how a call ends in which exc is raised under the handlers
Ends(exc, handlers) ==
    IF "Exception" \in handlers \/ exc \in handlers THEN "returned" ELSE "raised"

LmFresh ==
    /\ lm_discovered_ip = None
    /\ lm_discovery_attempted = FALSE
    /\ lm_discoveries = 0
    /\ lm_pc = [t \in Tasks |-> "idle"]
    /\ lm_url = [t \in Tasks |-> LAMETRIC_URL]
    /\ lm_pushes = [t \in Tasks |-> 0]
    /\ lm_posts = [t \in Tasks |-> 0]
    /\ lm_rediscoveries = [t \in Tasks |-> 0]
    /\ lm_first = [t \in Tasks |-> "none"]
    /\ lm_could = [t \in Tasks |-> FALSE]
    /\ lm_found = [t \in Tasks |-> "n/a"]
    /\ lm_got = [t \in Tasks |-> "n/a"]
    /\ lm_lost = FALSE
    /\ lm_ended = [t \in Tasks |-> "n/a"]

\* the sink with its key and url configured
LmInit == LmFresh /\ lm_api_key = TRUE /\ lm_base_url = TRUE

\* the sink with or without its key, with or without its url
LmInputs == LmFresh /\ lm_api_key \in BOOLEAN /\ lm_base_url \in BOOLEAN

\* send_http_payload begins: without the key it returns at once, without
\* the url _get_url_manager raises ValueError; otherwise get_url starts the
\* first discovery, or returns the url at once
LmSendStart(t) ==
    /\ lm_pc[t] = "idle"
    /\ lm_pushes[t] < MaxPushes
    /\ lm_pushes' = [lm_pushes EXCEPT ![t] = @ + 1]
    /\ IF ~lm_api_key
       THEN /\ lm_ended' = [lm_ended EXCEPT ![t] = "returned"]
            /\ UNCHANGED <<lm_posts, lm_rediscoveries, lm_first, lm_could,
                           lm_found, lm_got, lm_discovery_attempted,
                           lm_discoveries, lm_pc, lm_url>>
       ELSE IF ~lm_base_url
       THEN /\ lm_ended' = [lm_ended EXCEPT ![t] = Ends("ValueError", SendHandlers)]
            /\ UNCHANGED <<lm_posts, lm_rediscoveries, lm_first, lm_could,
                           lm_found, lm_got, lm_discovery_attempted,
                           lm_discoveries, lm_pc, lm_url>>
       ELSE /\ lm_ended' = [lm_ended EXCEPT ![t] = "n/a"]
            /\ lm_posts' = [lm_posts EXCEPT ![t] = 0]
            /\ lm_rediscoveries' = [lm_rediscoveries EXCEPT ![t] = 0]
            /\ lm_first' = [lm_first EXCEPT ![t] = "none"]
            /\ lm_could' = [lm_could EXCEPT ![t] = FALSE]
            /\ lm_found' = [lm_found EXCEPT ![t] = "n/a"]
            /\ IF NeedsDiscovery(lm_discovery_attempted)
               THEN /\ lm_discovery_attempted' = TRUE
                    /\ lm_discoveries' = lm_discoveries + 1
                    /\ lm_pc' = [lm_pc EXCEPT ![t] = "discovering"]
                    /\ lm_got' = [lm_got EXCEPT ![t] = "n/a"]
                    /\ UNCHANGED lm_url
               ELSE /\ lm_url' = [lm_url EXCEPT ![t] = CurrentUrl(lm_discovered_ip)]
                    /\ lm_got' = [lm_got EXCEPT ![t] = lm_discovered_ip]
                    /\ lm_pc' = [lm_pc EXCEPT ![t] = "posting"]
                    /\ UNCHANGED <<lm_discovery_attempted, lm_discoveries>>
    /\ UNCHANGED <<lm_discovered_ip, lm_lost, lm_api_key, lm_base_url>>
    /\ UNCHANGED <<source, monVars, hw1Vars, hw2Vars, tibVars, serVars, auxVars>>

\* _attempt_discovery: the SSDP search returns r; get_url returns
LmDiscovered(t, r) ==
    /\ lm_pc[t] = "discovering"
    /\ lm_discovered_ip' = r
    /\ lm_url' = [lm_url EXCEPT ![t] = CurrentUrl(r)]
    /\ lm_got' = [lm_got EXCEPT ![t] = r]
    /\ lm_pc' = [lm_pc EXCEPT ![t] = "posting"]
    /\ UNCHANGED <<lm_discovery_attempted, lm_discoveries, lm_pushes, lm_posts,
                   lm_rediscoveries, lm_first, lm_could, lm_found, lm_lost,
                   lm_api_key, lm_base_url, lm_ended>>
    /\ UNCHANGED <<source, monVars, hw1Vars, hw2Vars, tibVars, serVars, auxVars>>

PostOutcomes == {"ok", "connection_error", "other_error"}

\* the first POST ends; on a ConnectionError _retry_with_rediscovery starts
\* rediscover() if can_rediscover()
LmPost(t, outcome) ==
    /\ lm_pc[t] = "posting"
    /\ lm_posts' = [lm_posts EXCEPT ![t] = @ + 1]
    /\ lm_first' = [lm_first EXCEPT ![t] = outcome]
    /\ IF outcome = "connection_error"
       THEN /\ lm_could' = [lm_could EXCEPT ![t] = lm_discovered_ip /= None]
            /\ IF can_rediscover(lm_discovered_ip)
               THEN /\ lm_rediscoveries' = [lm_rediscoveries EXCEPT ![t] = @ + 1]
                    /\ lm_pc' = [lm_pc EXCEPT ![t] = "rediscovering"]
                    /\ UNCHANGED lm_ended
               ELSE /\ lm_pc' = [lm_pc EXCEPT ![t] = "idle"]
                    /\ lm_ended' = [lm_ended EXCEPT ![t] =
                                        Ends(ExceptionOf(outcome), SendHandlers)]
                    /\ UNCHANGED lm_rediscoveries
       ELSE /\ lm_pc' = [lm_pc EXCEPT ![t] = "idle"]
            /\ lm_ended' = [lm_ended EXCEPT ![t] =
                                IF outcome = "ok" THEN "returned"
                                ELSE Ends(ExceptionOf(outcome), SendHandlers)]
            /\ UNCHANGED <<lm_could, lm_rediscoveries>>
    /\ UNCHANGED <<lm_discovered_ip, lm_discovery_attempted, lm_discoveries,
                   lm_url, lm_pushes, lm_found, lm_got, lm_lost, lm_api_key,
                   lm_base_url>>
    /\ UNCHANGED <<source, monVars, hw1Vars, hw2Vars, tibVars, serVars, auxVars>>

\* rediscover(): the SSDP search returns r; None ends the push, an address
\* gives the url of the retry
LmRediscovered(t, r) ==
    /\ lm_pc[t] = "rediscovering"
    /\ lm_discovered_ip' = r
    /\ lm_found' = [lm_found EXCEPT ![t] = r]
    /\ lm_lost' = (lm_lost \/ r = None)
    /\ IF r = None
       THEN /\ lm_pc' = [lm_pc EXCEPT ![t] = "idle"]
            /\ lm_ended' = [lm_ended EXCEPT ![t] = "returned"]
            /\ UNCHANGED lm_url
       ELSE /\ lm_url' = [lm_url EXCEPT ![t] = _replace_host(LAMETRIC_URL, r)]
            /\ lm_pc' = [lm_pc EXCEPT ![t] = "retrying"]
            /\ UNCHANGED lm_ended
    /\ UNCHANGED <<lm_discovery_attempted, lm_discoveries, lm_pushes, lm_posts,
                   lm_rediscoveries, lm_first, lm_could, lm_got, lm_api_key,
                   lm_base_url>>
    /\ UNCHANGED <<source, monVars, hw1Vars, hw2Vars, tibVars, serVars, auxVars>>

\* the retried POST ends; a failure is logged
LmRetryPost(t, outcome) ==
    /\ lm_pc[t] = "retrying"
    /\ lm_posts' = [lm_posts EXCEPT ![t] = @ + 1]
    /\ lm_pc' = [lm_pc EXCEPT ![t] = "idle"]
    /\ lm_ended' = [lm_ended EXCEPT ![t] =
                        IF outcome = "ok" THEN "returned"
                        ELSE Ends(ExceptionOf(outcome), RetryHandlers)]
    /\ UNCHANGED <<lm_discovered_ip, lm_discovery_attempted, lm_discoveries,
                   lm_url, lm_pushes, lm_rediscoveries, lm_first, lm_could,
                   lm_found, lm_got, lm_lost, lm_api_key, lm_base_url>>
    /\ UNCHANGED <<source, monVars, hw1Vars, hw2Vars, tibVars, serVars, auxVars>>

NextSink ==
    \/ \E t \in Tasks : LmSendStart(t)
    \/ \E t \in Tasks, r \in LmAddresses \cup {None} : LmDiscovered(t, r)
    \/ \E t \in Tasks, o \in PostOutcomes : LmPost(t, o)
    \/ \E t \in Tasks, r \in LmAddresses \cup {None} : LmRediscovered(t, r)
    \/ \E t \in Tasks, o \in PostOutcomes : LmRetryPost(t, o)

(***************************************************************************)
(* _replace_host on its own: a configured url, then hosts substituted one  *)
(* after the other, each into the result of the one before.                *)
(***************************************************************************)
\* substitutions in a row
MaxSubst == 2

\* configured urls, as urlparse splits them
Urls ==
    [scheme : {"http", "https"},
     userinfo : {"", "dev:key"},
     host : {"192.168.2.2"},
     port : PortStrings,
     path : {"/api/v2/widget/update/com.lametric.diy.devwidget/f3b7537fe7a3460db469a9722af3e6a8",
             "/"},
     params : {"", "v=1"},
     query : {"", "param=value"},
     fragment : {"", "top"}]

\* addresses SSDP hands to _replace_host
NewHosts == LmAddresses \cup {"192.168.2.2"}

UrlInit ==
    /\ rh_in = LAMETRIC_URL
    /\ rh_out = LAMETRIC_URL
    /\ rh_hosts = <<>>

UrlInputs ==
    /\ rh_in \in Urls
    /\ rh_out = rh_in
    /\ rh_hosts = <<>>

ReplaceHost(new_ip) ==
    /\ Len(rh_hosts) < MaxSubst
    /\ rh_out' = _replace_host(rh_out, new_ip)
    /\ rh_hosts' = Append(rh_hosts, new_ip)
    /\ UNCHANGED rh_in
    /\ UNCHANGED <<coreVars, ssdpVars, mdnsVars, crcVars, ppVars, cdVars, cnVars, fmVars, blVars, dvVars>>

NextUrl == \E new_ip \in NewHosts : ReplaceHost(new_ip)

(***************************************************************************)
(* SSDP search for the display: _discover_lametric with                    *)
(* _SSDPDiscoveryProtocol (sinks/lametric.py).  Devices on the network     *)
(* answer the M-SEARCH within the timeout; the protocol gets the datagrams *)
(* that arrive while its transport is open.                                *)
(***************************************************************************)
\* replies sent to one search
MaxReplies == 3

\* a reply: the address it comes from, whether it holds "HTTP/1.1 200 OK"
\* and whether it holds the LaMetric URN
Replies == [ip : LmAddresses, ok : BOOLEAN, urn : BOOLEAN]

SsdpInit ==
    /\ sd_pc = "start"
    /\ sd_result = None
    /\ sd_replies = <<>>
    /\ sd_elapsed = FALSE
    /\ sd_transport = "none"
    /\ sd_set_results = 0

\* datagram_received: "HTTP/1.1 200 OK" in message and LAMETRIC_URN in message
IsLaMetricReplyMutant(m) == m.ok
IsLaMetricReply(m) == m.ok /\ m.urn

\* create_datagram_endpoint succeeded: connection_made sends the M-SEARCH
SsdpSearch ==
    /\ sd_pc = "start"
    /\ sd_pc' = "listening"
    /\ sd_transport' = "open"
    /\ UNCHANGED <<sd_result, sd_replies, sd_elapsed, sd_set_results>>
    /\ UNCHANGED <<coreVars, urlVars, mdnsVars, crcVars, ppVars, cdVars, cnVars, fmVars, blVars, dvVars>>

\* create_datagram_endpoint raised: except Exception returns None
SsdpSearchError ==
    /\ sd_pc = "start"
    /\ sd_pc' = "done"
    /\ sd_result' = None
    /\ UNCHANGED <<sd_replies, sd_elapsed, sd_transport, sd_set_results>>
    /\ UNCHANGED <<coreVars, urlVars, mdnsVars, crcVars, ppVars, cdVars, cnVars, fmVars, blVars, dvVars>>

\* a device answers the M-SEARCH within the timeout (none does when no
\* search was sent); while the transport is open the protocol's
\* datagram_received gets the reply, and the first valid one sets the
\* future's result and closes the transport, which ends the search
SsdpReply(m) ==
    /\ sd_pc \in {"listening", "done"}
    /\ ~sd_elapsed
    /\ sd_pc = "done" => sd_result /= None
    /\ Len(sd_replies) < MaxReplies
    /\ sd_replies' = Append(sd_replies, m)
    /\ IF sd_pc = "listening" /\ IsLaMetricReply(m)
       THEN /\ sd_result' = m.ip
            /\ sd_pc' = "done"
            /\ sd_set_results' = sd_set_results + 1
            /\ sd_transport' = "closed"
       ELSE UNCHANGED <<sd_result, sd_pc, sd_set_results, sd_transport>>
    /\ UNCHANGED sd_elapsed
    /\ UNCHANGED <<coreVars, urlVars, mdnsVars, crcVars, ppVars, cdVars, cnVars, fmVars, blVars, dvVars>>

\* the timeout passes: asyncio.TimeoutError closes the transport and returns
\* None if the search is still listening
SsdpTimeoutMutant ==
    /\ sd_pc \in {"listening", "done"}
    /\ ~sd_elapsed
    /\ sd_pc = "done" => sd_result /= None
    /\ sd_elapsed' = TRUE
    /\ IF sd_pc = "listening"
       THEN sd_result' = None /\ sd_pc' = "done" /\ UNCHANGED sd_transport
       ELSE UNCHANGED <<sd_result, sd_pc, sd_transport>>
    /\ UNCHANGED <<sd_replies, sd_set_results>>
    /\ UNCHANGED <<coreVars, urlVars, mdnsVars, crcVars, ppVars, cdVars, cnVars, fmVars, blVars, dvVars>>
SsdpTimeout ==
    /\ sd_pc \in {"listening", "done"}
    /\ ~sd_elapsed
    /\ sd_pc = "done" => sd_result /= None
    /\ sd_elapsed' = TRUE
    /\ IF sd_pc = "listening"
       THEN sd_result' = None /\ sd_pc' = "done" /\ sd_transport' = "closed"
       ELSE UNCHANGED <<sd_result, sd_pc, sd_transport>>
    /\ UNCHANGED <<sd_replies, sd_set_results>>
    /\ UNCHANGED <<coreVars, urlVars, mdnsVars, crcVars, ppVars, cdVars, cnVars, fmVars, blVars, dvVars>>

NextSsdp ==
    \/ SsdpSearch
    \/ SsdpSearchError
    \/ \E m \in Replies : SsdpReply(m)
    \/ SsdpTimeout

(***************************************************************************)
(* mDNS browse for the meter: discover_homewizard (sources/discovery.py),  *)
(* the routine HomeWizardV2Source.connect and stream call.  Each           *)
(* advertisement starts a task that resolves the service info; the browse  *)
(* ends when found_event is set or the timeout passes, and the function    *)
(* returns after the browser and zeroconf were closed.                     *)
(***************************************************************************)
\* advertisements seen in one browse
MaxAds == 3

\* discovery_mdns.TARGET_PRODUCT_TYPE
TARGET_PRODUCT_TYPE == "HWE-P1"

\* an advertisement on _hwenergy._tcp: the address it resolves to, its
\* product_type property ("missing": none) and whether the service info
\* resolves with an address
Ads == [ip : Hosts, product_type : {"HWE-P1", "HWE-SKT", "missing"},
        resolves : BOOLEAN]

MdnsInit ==
    /\ md_pc = "browsing"
    /\ md_discovered_ip = None
    /\ md_result = None
    /\ md_pending = {}
    /\ md_seen = 0
    /\ md_ads = <<>>

\* add_service: asyncio.create_task(self._async_add_service(...))
MdnsAddService(ad) ==
    /\ md_pc = "browsing"
    /\ md_seen < MaxAds
    /\ ad \notin md_pending
    /\ md_seen' = md_seen + 1
    /\ md_pending' = md_pending \cup {ad}
    /\ UNCHANGED <<md_pc, md_discovered_ip, md_result, md_ads>>
    /\ UNCHANGED <<coreVars, urlVars, ssdpVars, crcVars, ppVars, cdVars, cnVars, fmVars, blVars, dvVars>>

\* _async_add_service after async_get_service_info: with an address,
\* discovered_ip = addresses[0] and found_event.set(), which ends the wait
MdnsServiceInfo(ad) ==
    /\ md_pc \in {"browsing", "closing"}
    /\ ad \in md_pending
    /\ md_pending' = md_pending \ {ad}
    /\ md_ads' = Append(md_ads, ad)
    /\ IF ad.resolves
       THEN /\ md_discovered_ip' = ad.ip
            /\ md_pc' = "closing"
       ELSE UNCHANGED <<md_discovered_ip, md_pc>>
    /\ UNCHANGED <<md_result, md_seen>>
    /\ UNCHANGED <<coreVars, urlVars, ssdpVars, crcVars, ppVars, cdVars, cnVars, fmVars, blVars, dvVars>>

\* asyncio.TimeoutError: browser.cancel() and leave the async with
MdnsTimeout ==
    /\ md_pc = "browsing"
    /\ md_pc' = "closing"
    /\ UNCHANGED <<md_discovered_ip, md_result, md_pending, md_seen, md_ads>>
    /\ UNCHANGED <<coreVars, urlVars, ssdpVars, crcVars, ppVars, cdVars, cnVars, fmVars, blVars, dvVars>>

\* zeroconf is closed: return discovered_ip
MdnsReturn ==
    /\ md_pc = "closing"
    /\ md_pc' = "done"
    /\ md_result' = md_discovered_ip
    /\ UNCHANGED <<md_discovered_ip, md_pending, md_seen, md_ads>>
    /\ UNCHANGED <<coreVars, urlVars, ssdpVars, crcVars, ppVars, cdVars, cnVars, fmVars, blVars, dvVars>>

NextMdns ==
    \/ \E ad \in Ads : MdnsAddService(ad)
    \/ \E ad \in Ads : MdnsServiceInfo(ad)
    \/ MdnsTimeout
    \/ MdnsReturn

(***************************************************************************)
(* DSMR telegram CRC (sources/p1_serial.py).  Text is a sequence of bytes  *)
(* (character codes), a telegram a sequence of lines without their line    *)
(* terminators, as _read_telegram collects them.                           *)
(***************************************************************************)
\* the bit of weight p of a ^ b
XorBit(a, b, p) == (((a \div p) + (b \div p)) % 2) * p

\* a ^ b on 16-bit numbers
Xor(a, b) ==
    XorBit(a, b, 1) + XorBit(a, b, 2) + XorBit(a, b, 4) + XorBit(a, b, 8)
    + XorBit(a, b, 16) + XorBit(a, b, 32) + XorBit(a, b, 64) + XorBit(a, b, 128)
    + XorBit(a, b, 256) + XorBit(a, b, 512) + XorBit(a, b, 1024)
    + XorBit(a, b, 2048) + XorBit(a, b, 4096) + XorBit(a, b, 8192)
    + XorBit(a, b, 16384) + XorBit(a, b, 32768)

\* the reversed polynomial 0xA001
CRC_POLY == 40961

\* one round of the inner loop: if crc & 1: crc = (crc >> 1) ^ 0xA001
\* else: crc >>= 1
CrcRoundMutant(crc) == crc \div 2
CrcRound(crc) == IF crc % 2 = 1 THEN Xor(crc \div 2, CRC_POLY) ELSE crc \div 2

\* for _ in range(8)
CrcRounds(crc) ==
    CrcRound(CrcRound(CrcRound(CrcRound(CrcRound(CrcRound(CrcRound(CrcRound(crc))))))))

\* the loop body for one byte: crc ^= byte, then the 8 rounds
CrcByte(crc, byte) == CrcRounds(Xor(crc, byte))

\* the loop over data[lo..hi], entered with crc: the bytes in order. The
\* range is halved and the crc after the first half is bound as a value (c)
\* before the second half starts, so the evaluation does not nest per byte.
RECURSIVE CrcRange(_, _, _, _)
CrcRange(crc, data, lo, hi) ==
    IF lo > hi THEN crc
    ELSE IF lo = hi THEN CrcByte(crc, data[lo])
    ELSE CHOOSE r \in { CrcRange(c, data, (lo + hi) \div 2 + 1, hi) :
                          c \in {CrcRange(crc, data, lo, (lo + hi) \div 2)} } : TRUE

\* _calculate_crc16: crc = 0x0000; for byte in data: ...
_calculate_crc16(data) == CrcRange(0, data, 1, Len(data))

CRLF == <<13, 10>>

\* line.startswith(c)
StartsWith(line, c) == Len(line) > 0 /\ line[1] = c

\* '\r\n'.join(lines)
RECURSIVE JoinCRLF(_)
JoinCRLF(lines) ==
    IF lines = <<>> THEN <<>>
    ELSE IF Len(lines) = 1 THEN lines[1]
    ELSE lines[1] \o CRLF \o JoinCRLF(Tail(lines))

\* the value of a hexadecimal digit, -1 for any other character
HexVal(b) ==
    IF b \in 48..57 THEN b - 48
    ELSE IF b \in 65..70 THEN b - 55
    ELSE IF b \in 97..102 THEN b - 87
    ELSE -1

\* the digit d as an upper-case hexadecimal character
HexChar(d) == IF d < 10 THEN 48 + d ELSE 55 + d

\* a CRC as the meter writes it: four hexadecimal digits
Hex4(n) ==
    <<HexChar((n \div 4096) % 16), HexChar((n \div 256) % 16),
      HexChar((n \div 16) % 16), HexChar(n % 16)>>

\* telegram_str = '\r\n'.join(telegram[:-1]) + '\r\n!': the text the CRC is
\* computed over
CrcText(telegram) == JoinCRLF(SubSeq(telegram, 1, Len(telegram) - 1)) \o CRLF \o <<33>>

\* _validate_crc: False without a terminator line '!', with a terminator
\* shorter than '!' and four characters, with characters that are no
\* hexadecimal number (ValueError of int; the signed, blank-padded and
\* underscore forms int() also takes are not among the inputs) or with a
\* character that is not ASCII (UnicodeEncodeError, a ValueError); else
\* whether the CRC16 of the text is the number in the terminator
_validate_crc(telegram) ==
    IF telegram = <<>> \/ ~StartsWith(telegram[Len(telegram)], 33) THEN FALSE
    ELSE LET crc_line == telegram[Len(telegram)]
         IN  IF Len(crc_line) < 5 THEN FALSE
             ELSE IF \E i \in 2..5 : HexVal(crc_line[i]) = -1 THEN FALSE
             ELSE IF \E i \in 1..Len(CrcText(telegram)) : CrcText(telegram)[i] > 127
                  THEN FALSE
             ELSE _calculate_crc16(CrcText(telegram)) =
                      4096 * HexVal(crc_line[2]) + 256 * HexVal(crc_line[3])
                      + 16 * HexVal(crc_line[4]) + HexVal(crc_line[5])

(***************************************************************************)
(* _validate_crc on its own: a telegram with its CRC, given as it is or    *)
(* with one byte replaced.                                                 *)
(***************************************************************************)
\* lines of a telegram before its terminator line
MaxBodyLines == 3

\* telegram lines: a header, a blank line, a power line, another line
HeaderLine == <<47, 88, 53>>          \* "/X5"
BlankLine == <<>>
\* "1-0:1.7.0(00.424*kW)"
PowerLine == <<49, 45, 48, 58, 49, 46, 55, 46, 48, 40, 48, 48, 46, 52, 50, 52, 42, 107, 87, 41>>
\* "1-3:0.2.8(50)"
OtherLine == <<49, 45, 51, 58, 48, 46, 50, 46, 56, 40, 53, 48, 41>>
BodyLines == {HeaderLine, BlankLine, PowerLine, OtherLine}

\* the bytes a replaced byte becomes: LF, blank, '!', '/', '0', 'é'
ReplacementBytes == {10, 32, 33, 47, 48, 233}

\* the terminator line the meter writes for the lines before it
Terminator(body) == <<33>> \o Hex4(_calculate_crc16(JoinCRLF(body) \o CRLF \o <<33>>))

\* telegrams that start with a header line and carry their CRC
ValidTelegrams ==
    {<<HeaderLine>> \o body \o <<Terminator(<<HeaderLine>> \o body)>> :
        body \in UNION {[1..n -> BodyLines] : n \in 0..(MaxBodyLines - 1)}}

CrcInit ==
    /\ crc_telegram = <<HeaderLine, Terminator(<<HeaderLine>>)>>
    /\ crc_given = crc_telegram
    /\ crc_at = <<0, 0>>
    /\ crc_valid = "unknown"

CrcInputs ==
    /\ crc_telegram \in ValidTelegrams
    /\ crc_given = crc_telegram
    /\ crc_at = <<0, 0>>
    /\ crc_valid = "unknown"

\* byte j of line i, in the range from '/' through '!', becomes b
CrcReplaceByte(i, j, b) ==
    /\ crc_at = <<0, 0>>
    /\ i \in 1..Len(crc_given)
    /\ j \in 1..Len(crc_given[i])
    /\ i = Len(crc_given) => j = 1
    /\ b /= crc_given[i][j]
    /\ crc_given' = [crc_given EXCEPT ![i][j] = b]
    /\ crc_at' = <<i, j>>
    /\ crc_valid' = "unknown"
    /\ UNCHANGED crc_telegram
    /\ UNCHANGED <<coreVars, urlVars, ssdpVars, mdnsVars, ppVars, cdVars, cnVars, fmVars, blVars, dvVars>>

\* _validate_crc(telegram) is called
CrcValidate ==
    /\ crc_valid = "unknown"
    /\ crc_valid' = IF _validate_crc(crc_given) THEN "True" ELSE "False"
    /\ UNCHANGED <<crc_telegram, crc_given, crc_at>>
    /\ UNCHANGED <<coreVars, urlVars, ssdpVars, mdnsVars, ppVars, cdVars, cnVars, fmVars, blVars, dvVars>>

\* longest line a byte is replaced in
MaxLineLen == 20

NextCrc ==
    \/ \E i \in 1..(MaxBodyLines + 1), j \in 1..MaxLineLen, b \in ReplacementBytes :
          CrcReplaceByte(i, j, b)
    \/ CrcValidate

(***************************************************************************)
(* P1SerialSource._parse_power on its own.  A telegram line is written     *)
(* code(value unit), e.g. 1-0:1.7.0(00.424*kW); a line that has no such    *)
(* group (the header, the terminator) has code "".                         *)
(***************************************************************************)
OBIS_CONSUMPTION == "1-0:1.7.0"
OBIS_PRODUCTION == "1-0:2.7.0"

\* lines of a telegram given to _parse_power
MaxParseLines == 3

\* the text between '(' and the unit, and the kW it is as a number times
\* 1000; NotANumber for a text float() raises ValueError on
NotANumber == -1
NumTexts == {"00.424", "01.500", "00.000", "50", "1.2.3", "231226180000W"}
FloatTimes1000(text) ==
    CASE text = "00.424" -> 424
      [] text = "01.500" -> 1500
      [] text = "00.000" -> 0
      [] text = "50" -> 50000
      [] text = "1.2.3" -> NotANumber
      [] text = "231226180000W" -> NotANumber

\* [0-9\.]+ : digits and dots only
IsDigitsAndDots(text) == text \in {"00.424", "01.500", "00.000", "50", "1.2.3"}

TelegramLines ==
    { [code |-> OBIS_CONSUMPTION, num |-> "00.424", unit |-> "*kW"],
      [code |-> OBIS_CONSUMPTION, num |-> "00.424", unit |-> ""],
      [code |-> OBIS_CONSUMPTION, num |-> "01.500", unit |-> "*kW"],
      [code |-> OBIS_PRODUCTION, num |-> "01.500", unit |-> "*kW"],
      [code |-> OBIS_PRODUCTION, num |-> "00.000", unit |-> "*kW"],
      [code |-> "1-3:0.2.8", num |-> "50", unit |-> ""],
      [code |-> "0-0:1.0.0", num |-> "231226180000W", unit |-> ""],
      [code |-> "1-0:32.7.0", num |-> "50", unit |-> "*V"],
      [code |-> "0-0:96.1.4", num |-> "1.2.3", unit |-> ""],
      [code |-> "", num |-> "", unit |-> ""] }

\* obis_pattern.search(line): ([\d\-:\.]+)\(([0-9\.]+)(?:\*k?W)?\)
PatternMatches(line) ==
    /\ line.code /= ""
    /\ IsDigitsAndDots(line.num)
    /\ line.unit \in {"", "*kW", "*W"}

\* the loop over the first n lines: consumption_kw and production_kw (times
\* 1000, NotANumber for None), and whether float() has raised
RECURSIVE ParseLines(_, _)
ParseLines(telegram, n) ==
    IF n = 0
    THEN [consumption |-> NotANumber, production |-> NotANumber, raised |-> FALSE]
    ELSE LET s == ParseLines(telegram, n - 1)
             line == telegram[n]
         IN  IF s.raised \/ ~PatternMatches(line) THEN s
             ELSE IF FloatTimes1000(line.num) = NotANumber
                  THEN [s EXCEPT !.raised = TRUE]
             ELSE IF line.code = OBIS_CONSUMPTION
                  THEN [s EXCEPT !.consumption = FloatTimes1000(line.num)]
             ELSE IF line.code = OBIS_PRODUCTION
                  THEN [s EXCEPT !.production = FloatTimes1000(line.num)]
             ELSE s

\* x or 0.0
OrZero(x) == IF x = NotANumber THEN 0 ELSE x

\* _parse_power: "ValueError", "None", or a PowerReading with the net watts
_parse_power(telegram) ==
    LET s == ParseLines(telegram, Len(telegram))
    IN  IF s.raised
        THEN [returns |-> "ValueError", power_watts |-> 0, timestamp |-> None]
        ELSE IF s.consumption /= NotANumber \/ s.production /= NotANumber
        THEN [returns |-> "PowerReading",
              power_watts |-> OrZero(s.consumption) - OrZero(s.production),
              timestamp |-> None]
        ELSE [returns |-> "None", power_watts |-> 0, timestamp |-> None]

Telegrams == UNION {[1..n -> TelegramLines] : n \in 0..MaxParseLines}

ParseInit ==
    /\ pp_telegram = <<>>
    /\ pp_result = [returns |-> "unknown", power_watts |-> 0, timestamp |-> None]

ParseInputs ==
    /\ pp_telegram \in Telegrams
    /\ pp_result = [returns |-> "unknown", power_watts |-> 0, timestamp |-> None]

\* _parse_power(telegram) is called
ParsePower ==
    /\ pp_result.returns = "unknown"
    /\ pp_result' = _parse_power(pp_telegram)
    /\ UNCHANGED pp_telegram
    /\ UNCHANGED <<coreVars, urlVars, ssdpVars, mdnsVars, crcVars, cdVars, cnVars, fmVars, blVars, dvVars>>

NextParse == ParsePower

(***************************************************************************)
(* P1SerialSource._read_telegram line by line, inside stream(): one action *)
(* per call of ser.readline.  The meter writes each line with CR LF and    *)
(* ends a telegram with '!' and the CRC16 of all bytes from the opening    *)
(* '/' through the '!'.                                                    *)
(***************************************************************************)
\* calls of ser.readline
MaxLines == 5

IsAscii(b) == b < 128
\* the characters str.strip() removes
IsSpace(b) == b \in {9, 10, 11, 12, 13, 28, 29, 30, 31, 32}

RECURSIVE LStrip(_)
LStrip(text) ==
    IF text /= <<>> /\ IsSpace(Head(text)) THEN LStrip(Tail(text)) ELSE text

RECURSIVE RStrip(_)
RStrip(text) ==
    IF text /= <<>> /\ IsSpace(text[Len(text)])
    THEN RStrip(SubSeq(text, 1, Len(text) - 1)) ELSE text

\* line.decode('ascii', errors='ignore').strip()
DecodeAndStrip(raw) == LStrip(RStrip(SelectSeq(raw, IsAscii)))

\* the terminator line the meter writes after the bytes sent since the '/',
\* or with another number when the line was disturbed
WireTerminator(sound) ==
    LET crc == _calculate_crc16(cd_wire \o <<33>>)
    IN  <<33>> \o Hex4(IF sound THEN crc ELSE (crc + 1) % 65536) \o CRLF

\* what ser.readline returns: a line with its CR LF, or nothing at a timeout
WireLines ==
    {HeaderLine \o CRLF, CRLF, PowerLine \o CRLF, <<>>,
     WireTerminator(TRUE), WireTerminator(FALSE)}

\* a telegram line as _parse_power's pattern sees it
AsTelegramLine(line) ==
    IF line = PowerLine
    THEN [code |-> OBIS_CONSUMPTION, num |-> "00.424", unit |-> "*kW"]
    ELSE IF line = OtherLine
    THEN [code |-> "1-3:0.2.8", num |-> "50", unit |-> ""]
    ELSE [code |-> "", num |-> "", unit |-> ""]

CdFresh ==
    /\ cd_telegram = <<>>
    /\ cd_in_telegram = FALSE
    /\ cd_lines = 0
    /\ cd_last = "none"
    /\ cd_wire = <<>>
    /\ cd_sent = <<>>
    /\ cd_fed = <<>>
    /\ cd_epoch = <<>>
    /\ cd_returned = <<>>
    /\ cd_port_open = TRUE
    /\ cd_reopens = 0

\* a meter that sends telegrams
CdInit == CdFresh /\ cd_silent = FALSE

\* a meter that sends telegrams, or a port nothing arrives on
CdInputs == CdFresh /\ cd_silent \in BOOLEAN

\* telegram = [] after a CRC that does not match
DiscardedMutant(telegram) == telegram
Discarded(telegram) == <<>>

\* telegram = [line] at a line that starts with '/'
RestartedMutant(line) == Append(cd_telegram, line)
Restarted(line) == <<line>>

\* the bytes received since the opening '/' after raw is received
WireAfter(raw) ==
    IF StartsWith(raw, 47) THEN raw
    ELSE IF cd_wire = <<>> \/ StartsWith(raw, 33) THEN <<>>
    ELSE cd_wire \o raw

\* the lines kept since the latest telegram was returned, discarded or
\* given up, after line is kept
EpochAfter(line) ==
    IF cd_last \in {"telegram", "crc_mismatch", "read_error"} THEN <<line>>
    ELSE Append(cd_epoch, line)

\* _read_telegram returned the telegram: stream() parses it
CdDeliver(telegram) ==
    LET result == _parse_power([i \in 1..Len(telegram) |-> AsTelegramLine(telegram[i])])
    IN  IF result.returns = "PowerReading" THEN SerReadingStep(result.power_watts)
        ELSE IF result.returns = "None" THEN SerNoPowerStep
        ELSE SerFailedReadStep("parse_error")

\* ser.readline returned raw; on a port nothing arrives on the reads go on
\* without end, and their count starts again at MaxLines
CdReadLine(raw) ==
    /\ source = "p1-serial"
    /\ ser_state = "streaming"
    /\ cd_port_open
    /\ cd_lines < MaxLines \/ cd_silent
    /\ cd_silent => raw = <<>>
    /\ UNCHANGED <<cd_port_open, cd_reopens, cd_silent>>
    /\ cd_lines' = IF cd_lines < MaxLines THEN cd_lines + 1 ELSE 1
    /\ cd_wire' = WireAfter(raw)
    /\ LET line == DecodeAndStrip(raw)
           telegram == Append(cd_telegram, line)
       IN  IF line = <<>>
           THEN /\ cd_last' = "skipped"
                /\ UNCHANGED <<cd_telegram, cd_in_telegram, cd_sent, cd_fed,
                               cd_epoch, cd_returned, serVars>>
           ELSE IF StartsWith(line, 47)
           THEN /\ cd_in_telegram' = TRUE
                /\ cd_telegram' = Restarted(line)
                /\ cd_epoch' = EpochAfter(line)
                /\ cd_last' = "start"
                /\ UNCHANGED <<cd_sent, cd_fed, cd_returned, serVars>>
           ELSE IF ~cd_in_telegram
           THEN /\ cd_last' = "ignored"
                /\ UNCHANGED <<cd_telegram, cd_in_telegram, cd_sent, cd_fed,
                               cd_epoch, cd_returned, serVars>>
           ELSE IF ~StartsWith(line, 33)
           THEN /\ cd_telegram' = telegram
                /\ cd_epoch' = EpochAfter(line)
                /\ cd_last' = "appended"
                /\ UNCHANGED <<cd_in_telegram, cd_sent, cd_fed, cd_returned, serVars>>
           ELSE /\ cd_epoch' = EpochAfter(line)
                /\ cd_sent' = cd_wire \o <<33>>
                /\ cd_fed' = CrcText(telegram)
                /\ IF _validate_crc(telegram)
                   THEN /\ cd_returned' = telegram
                        /\ cd_telegram' = <<>>
                        /\ cd_in_telegram' = FALSE
                        /\ cd_last' = "telegram"
                        /\ CdDeliver(telegram)
                   ELSE /\ cd_telegram' = Discarded(telegram)
                        /\ cd_in_telegram' = FALSE
                        /\ cd_last' = "crc_mismatch"
                        /\ UNCHANGED <<cd_returned, serVars>>
    /\ UNCHANGED <<source, monVars, hw1Vars, hw2Vars, tibVars, lmVars, urlVars,
                   ssdpVars, mdnsVars, crcVars, ppVars, cnVars, fmVars, blVars,
                   dvVars>>

\* an exception raised by ser.readline leaves _read_telegram: never, its
\* `except Exception` returns None instead
EscapesReadTelegram == FALSE

\* ser.readline raised a SerialException (always when the port is closed;
\* closes: the port is closed by the failure, as when the adapter is
\* unplugged).  Caught inside _read_telegram, stream() sees None and counts
\* it; had it reached stream()'s `except serial.SerialException`, stream()
\* would count it, sleep 2 s and call ser.open() on a closed port.
CdReadError(closes) ==
    /\ source = "p1-serial"
    /\ ser_state = "streaming"
    /\ cd_lines < MaxLines
    /\ ~cd_silent
    /\ ~cd_port_open => closes
    /\ cd_lines' = cd_lines + 1
    /\ cd_telegram' = <<>>
    /\ cd_in_telegram' = FALSE
    /\ cd_last' = "read_error"
    /\ IF EscapesReadTelegram
       THEN /\ SerFailedReadStep("serial_exception")
            /\ IF closes /\ ~SerRetriesExhausted(ser_consecutive_errors + 1)
               THEN /\ cd_reopens' = cd_reopens + 1
                    /\ cd_port_open' \in BOOLEAN
               ELSE /\ cd_port_open' = ~closes
                    /\ UNCHANGED cd_reopens
       ELSE /\ SerFailedReadStep("no_telegram")
            /\ cd_port_open' = ~closes
            /\ UNCHANGED cd_reopens
    /\ UNCHANGED <<cd_wire, cd_sent, cd_fed, cd_epoch, cd_returned, cd_silent>>
    /\ UNCHANGED <<source, monVars, hw1Vars, hw2Vars, tibVars, lmVars, urlVars,
                   ssdpVars, mdnsVars, crcVars, ppVars, cnVars, fmVars, blVars,
                   dvVars>>

NextTelegram ==
    \/ \E raw \in WireLines : CdReadLine(raw)
    \/ \E closes \in BOOLEAN : CdReadError(closes)

(***************************************************************************)
(* Start of the process: bridge.get_source, then connect() of the chosen   *)
(* source, then the first use of stream().  sys.exit(1) raises SystemExit  *)
(* and ends the process.                                                   *)
(***************************************************************************)
\* homes in the bootstrap response
MaxHomes == 3

SourceNames == Sources \cup {"invalid_source"}

HomeIds == <<"home-1", "home-2", "home-3", "home-4">>

\* the homes lists of a viewer: ids in list order, any of them enabled
HomesLists ==
    UNION {[1..n -> [id : {HomeIds[i] : i \in 1..4}, enabled : BOOLEAN]] : n \in 0..MaxHomes}
DistinctIds(homes) == \A i, j \in 1..Len(homes) : homes[i].id = homes[j].id => i = j
Viewers == {homes \in HomesLists : DistinctIds(homes) /\ \A i \in 1..Len(homes) : homes[i].id = HomeIds[i]}

NoExit == -1

CnInit ==
    /\ cn_name = "tibber"
    /\ cn_token = TRUE
    /\ cn_host = TRUE
    /\ cn_device = TRUE
    /\ cn_pc = "start"
    /\ cn_exit = NoExit
    /\ cn_ops = <<>>
    /\ cn_homes = <<>>
    /\ cn_wss_url = None
    /\ cn_home_id = None

CnInputs ==
    /\ cn_name \in SourceNames
    /\ cn_token \in BOOLEAN
    /\ cn_host \in BOOLEAN
    /\ cn_device \in BOOLEAN
    /\ cn_pc = "start"
    /\ cn_exit = NoExit
    /\ cn_ops = <<>>
    /\ cn_homes = <<>>
    /\ cn_wss_url = None
    /\ cn_home_id = None

\* sys.exit(1)
Exit1 ==
    /\ cn_pc' = "exited"
    /\ cn_exit' = 1

\* get_source(name): an unknown name and a missing Tibber token exit with
\* status 1; otherwise the source object is constructed from the
\* configuration
CnGetSource ==
    /\ cn_pc = "start"
    /\ IF cn_name \notin Sources \/ (cn_name = "tibber" /\ ~cn_token)
       THEN Exit1
       ELSE cn_pc' = "constructed" /\ UNCHANGED cn_exit
    /\ UNCHANGED <<cn_name, cn_token, cn_host, cn_device, cn_ops, cn_homes,
                   cn_wss_url, cn_home_id>>
    /\ UNCHANGED <<coreVars, urlVars, ssdpVars, mdnsVars, crcVars, ppVars, cdVars, fmVars, blVars, dvVars>>

\* a source object constructed directly, as its connect() is called on any
\* configuration
CnConstruct ==
    /\ cn_pc = "start"
    /\ cn_name \in Sources
    /\ cn_pc' = "constructed"
    /\ UNCHANGED <<cn_name, cn_token, cn_host, cn_device, cn_exit, cn_ops,
                   cn_homes, cn_wss_url, cn_home_id>>
    /\ UNCHANGED <<coreVars, urlVars, ssdpVars, mdnsVars, crcVars, ppVars, cdVars, fmVars, blVars, dvVars>>

\* the configuration check each connect() begins with: TibberSource the
\* token, HomeWizardP1Source the host, P1SerialSource the device;
\* HomeWizardV2Source begins with the host, and without one it discovers
ConfigMissing ==
    \/ cn_name = "tibber" /\ ~cn_token
    \/ cn_name = "homewizard-v1" /\ ~cn_host
    \/ cn_name = "p1-serial" /\ ~cn_device

\* what a connect() that passed its check starts: the bootstrap POST, the
\* test GET, the opening of the serial port
FirstOperation ==
    CASE cn_name = "tibber" -> "http_post"
      [] cn_name = "homewizard-v1" -> "http_get"
      [] cn_name = "p1-serial" -> "serial_open"

\* connect() of TibberSource, HomeWizardP1Source, P1SerialSource up to its
\* first await
CnConnect ==
    /\ cn_pc = "constructed"
    /\ cn_name \in {"tibber", "homewizard-v1", "p1-serial"}
    /\ IF ConfigMissing
       THEN Exit1 /\ UNCHANGED cn_ops
       ELSE /\ cn_ops' = Append(cn_ops, FirstOperation)
            /\ cn_pc' = "bootstrapping"
            /\ UNCHANGED cn_exit
    /\ UNCHANGED <<cn_name, cn_token, cn_host, cn_device, cn_homes, cn_wss_url,
                   cn_home_id>>
    /\ UNCHANGED <<coreVars, urlVars, ssdpVars, mdnsVars, crcVars, ppVars, cdVars, fmVars, blVars, dvVars>>

\* HomeWizardV2Source.connect: `if not self.token` after the host is known
Hw2TokenCheck ==
    IF ~cn_token THEN Exit1 ELSE cn_pc' = "connected" /\ UNCHANGED cn_exit

\* HomeWizardV2Source.connect up to its first await: without a host the mDNS
\* discovery is started; with one the token is checked
CnConnectV2 ==
    /\ cn_pc = "constructed"
    /\ cn_name = "homewizard-v2"
    /\ IF ~cn_host
       THEN /\ cn_ops' = Append(cn_ops, "discovery")
            /\ cn_pc' = "discovering"
            /\ UNCHANGED cn_exit
       ELSE Hw2TokenCheck /\ UNCHANGED cn_ops
    /\ UNCHANGED <<cn_name, cn_token, cn_host, cn_device, cn_homes, cn_wss_url,
                   cn_home_id>>
    /\ UNCHANGED <<coreVars, urlVars, ssdpVars, mdnsVars, crcVars, ppVars, cdVars, fmVars, blVars, dvVars>>

\* discover_homewizard returned: nothing found exits, an address becomes the
\* host and the token is checked
CnDiscoveredV2(found) ==
    /\ cn_pc = "discovering"
    /\ IF ~found
       THEN Exit1 /\ UNCHANGED cn_host
       ELSE cn_host' = TRUE /\ Hw2TokenCheck
    /\ UNCHANGED <<cn_name, cn_token, cn_device, cn_ops, cn_homes, cn_wss_url,
                   cn_home_id>>
    /\ UNCHANGED <<coreVars, urlVars, ssdpVars, mdnsVars, crcVars, ppVars, cdVars, fmVars, blVars, dvVars>>

\* the loop over homes: the id of the first home whose
\* realTimeConsumptionEnabled is set, None when there is none
RECURSIVE FirstEnabledHomeMutant(_)
FirstEnabledHomeMutant(homes) ==
    IF homes = <<>> THEN None
    ELSE IF homes[Len(homes)].enabled THEN homes[Len(homes)].id
    ELSE FirstEnabledHomeMutant(SubSeq(homes, 1, Len(homes) - 1))
RECURSIVE FirstEnabledHome(_)
FirstEnabledHome(homes) ==
    IF homes = <<>> THEN None
    ELSE IF Head(homes).enabled THEN Head(homes).id
    ELSE FirstEnabledHome(Tail(homes))

\* the subscription URL of the bootstrap response
WssUrl == "wss://api.tibber.com/v1-beta/gql/subscriptions"

\* TibberSource.connect after the POST: a failed request exits; otherwise
\* wss_url and home_id are taken from the viewer, and a missing one exits
CnTibberReply(ok, url, homes) ==
    /\ cn_pc = "bootstrapping"
    /\ cn_name = "tibber"
    /\ IF ~ok
       THEN Exit1 /\ UNCHANGED <<cn_homes, cn_wss_url, cn_home_id>>
       ELSE /\ cn_homes' = homes
            /\ cn_wss_url' = url
            /\ cn_home_id' = FirstEnabledHome(homes)
            /\ IF url = None \/ FirstEnabledHome(homes) = None
               THEN Exit1
               ELSE cn_pc' = "connected" /\ UNCHANGED cn_exit
    /\ UNCHANGED <<cn_name, cn_token, cn_host, cn_device, cn_ops>>
    /\ UNCHANGED <<coreVars, urlVars, ssdpVars, mdnsVars, crcVars, ppVars, cdVars, fmVars, blVars, dvVars>>

\* HomeWizardP1Source.connect after the test GET, P1SerialSource.connect
\* after opening the port and reading one telegram: a failure exits
CnBootstrapReply(ok) ==
    /\ cn_pc = "bootstrapping"
    /\ cn_name \in {"homewizard-v1", "p1-serial"}
    /\ IF ok THEN cn_pc' = "connected" /\ UNCHANGED cn_exit ELSE Exit1
    /\ UNCHANGED <<cn_name, cn_token, cn_host, cn_device, cn_ops, cn_homes,
                   cn_wss_url, cn_home_id>>
    /\ UNCHANGED <<coreVars, urlVars, ssdpVars, mdnsVars, crcVars, ppVars, cdVars, fmVars, blVars, dvVars>>

\* stream() is iterated after connect() returned: the first connection,
\* request or read of the stream
CnStreamStart ==
    /\ cn_pc = "connected"
    /\ cn_pc' = "streaming"
    /\ cn_ops' = Append(cn_ops, "stream")
    /\ UNCHANGED <<cn_name, cn_token, cn_host, cn_device, cn_exit, cn_homes,
                   cn_wss_url, cn_home_id>>
    /\ UNCHANGED <<coreVars, urlVars, ssdpVars, mdnsVars, crcVars, ppVars, cdVars, fmVars, blVars, dvVars>>

NextConnect ==
    \/ CnGetSource
    \/ CnConstruct
    \/ CnConnect
    \/ CnConnectV2
    \/ \E found \in BOOLEAN : CnDiscoveredV2(found)
    \/ \E ok \in BOOLEAN, url \in {None, WssUrl}, homes \in Viewers :
          CnTibberReply(ok, url, homes)
    \/ \E ok \in BOOLEAN : CnBootstrapReply(ok)
    \/ CnStreamStart

(***************************************************************************)
(* The sink's payloads: push_to_lametric(reading) and                      *)
(* push_to_lametric_stale().  power_watts is a float; the model holds it   *)
(* in tenths of a watt.  A text is the sequence of its characters.         *)
(***************************************************************************)
\* pushes of one run
MaxFrames == 2

ICON_POWER == 26337
ICON_SOLAR == 54077
ICON_STALE == 1059

\* `if abs(power) >= 10000`
KW_THRESHOLD == 10000

Abs(n) == IF n < 0 THEN 0 - n ELSE n

\* power_watts of the Readings pushed, in tenths of a watt
PowerTenths ==
    {15000, -5000, 1807, 105000, -110000, 0, 4, -4, 5, -5, 15, -15, 25, -6,
     99994, 99995, 99996, 99985, -99995, 100000, -100000, 100004, 100500,
     -100500, 102500, 103500, 107500, 109500, 109996, 160500, 999500}

PushInputs ==
    {[stale |-> FALSE, tenths |-> t] : t \in PowerTenths}
        \cup {[stale |-> TRUE, tenths |-> 0]}

\* round(x) of a float x = tenths / 10: the nearest integer, a half to the
\* even one
RoundHalfEven(tenths) ==
    LET a == Abs(tenths)
        q == a \div 10
        r == a % 10
        m == IF r < 5 THEN q
             ELSE IF r > 5 THEN q + 1
             ELSE IF q % 2 = 0 THEN q ELSE q + 1
    IN  IF tenths < 0 THEN 0 - m ELSE m

RECURSIVE Log2(_)
Log2(n) == IF n <= 1 THEN 0 ELSE 1 + Log2(n \div 2)

RECURSIVE Pow2Mod125(_)
Pow2Mod125(k) == IF k <= 0 THEN 1 ELSE (2 * Pow2Mod125(k - 1)) % 125

\* power / 1000 is the double nearest to the quotient.  For a >= 1000 the
\* double has 52 - Log2(a div 1000) fraction bits, and a * 2^bits / 1000 =
\* a * 2^(bits - 3) / 125: the remainder tells on which side of the
\* quotient the double lies (-1 below, 0 exact, 1 above)
DoubleSide(a) ==
    LET r == ((a % 125) * Pow2Mod125(49 - Log2(a \div 1000))) % 125
    IN  IF r = 0 THEN 0 ELSE IF 2 * r < 125 THEN -1 ELSE 1

\* f"{power / 1000:.1f}" as a number of tenths of a kilowatt, of a power
\* a >= 1000: the decimal expansion of the double rounded to one decimal,
\* a half to the even one
KwTenths(a) ==
    LET q == a \div 100
        r == a % 100
    IN  IF r < 50 THEN q
        ELSE IF r > 50 THEN q + 1
        ELSE IF DoubleSide(a) < 0 THEN q
        ELSE IF DoubleSide(a) > 0 THEN q + 1
        ELSE IF q % 2 = 0 THEN q ELSE q + 1

DigitChars == <<"0", "1", "2", "3", "4", "5", "6", "7", "8", "9">>

\* str(n) of an integer n >= 0
RECURSIVE Digits(_)
Digits(n) ==
    IF n < 10 THEN <<DigitChars[n + 1]>>
    ELSE Append(Digits(n \div 10), DigitChars[(n % 10) + 1])

\* f"{power}" of an integer
IntText(n) == IF n < 0 THEN <<"-">> \o Digits(0 - n) ELSE Digits(n)

\* f"{power_kw:.1f}" of power_kw = power / 1000
KwText(power) ==
    LET t == KwTenths(Abs(power))
    IN  (IF power < 0 THEN <<"-">> ELSE <<>>)
            \o Digits(t \div 10) \o <<".">> \o <<DigitChars[(t % 10) + 1]>>

\* `if abs(power) >= 10000`
ShowsKilowattsMutant(power) == Abs(power) > KW_THRESHOLD
ShowsKilowatts(power) == Abs(power) >= KW_THRESHOLD

\* `if power < 0: icon = ICON_SOLAR else: icon = ICON_POWER`
IconOf(power) == IF power < 0 THEN ICON_SOLAR ELSE ICON_POWER

\* the frame push_to_lametric builds from reading.power_watts
push_to_lametric(tenths) ==
    LET power == RoundHalfEven(tenths)
    IN  [text  |-> IF ShowsKilowatts(power)
                   THEN KwText(power) \o <<" ", "k", "W">>
                   ELSE IntText(power) \o <<" ", "W">>,
         icon  |-> IconOf(power),
         index |-> 0]

\* the frame push_to_lametric_stale builds
push_to_lametric_stale ==
    [text |-> <<"-", "-", " ", "W">>, icon |-> ICON_STALE, index |-> 0]

FmInit ==
    /\ fm_queue = <<>>
    /\ fm_pushed = <<>>
    /\ fm_sent = <<>>

FmInputs ==
    /\ fm_queue \in UNION {[1..n -> PushInputs] : n \in 1..MaxFrames}
    /\ fm_pushed = <<>>
    /\ fm_sent = <<>>

\* await push_to_lametric(reading)
FmPush ==
    /\ fm_queue # <<>>
    /\ ~Head(fm_queue).stale
    /\ fm_sent' = Append(fm_sent, push_to_lametric(Head(fm_queue).tenths))
    /\ fm_pushed' = Append(fm_pushed, Head(fm_queue))
    /\ fm_queue' = Tail(fm_queue)
    /\ UNCHANGED <<coreVars, urlVars, ssdpVars, mdnsVars, crcVars, ppVars, cdVars, cnVars, blVars, dvVars>>

\* await push_to_lametric_stale()
FmPushStale ==
    /\ fm_queue # <<>>
    /\ Head(fm_queue).stale
    /\ fm_sent' = Append(fm_sent, push_to_lametric_stale)
    /\ fm_pushed' = Append(fm_pushed, Head(fm_queue))
    /\ fm_queue' = Tail(fm_queue)
    /\ UNCHANGED <<coreVars, urlVars, ssdpVars, mdnsVars, crcVars, ppVars, cdVars, cnVars, blVars, dvVars>>

NextFormat ==
    \/ FmPush
    \/ FmPushStale

(***************************************************************************)
(* The stream-consumption loop (bridge.py): tibber_stream's data loop      *)
(* takes a message from the socket and awaits push_to_lametric, which      *)
(* awaits send_http_payload in a worker thread.  Messages keep arriving at *)
(* the socket while the loop is busy.                                      *)
(***************************************************************************)
\* messages the socket receives in one run
MaxMessages == 4

\* the messages of the data phase
LoopMessages ==
    {[type |-> "next", has_power |-> TRUE, power |-> 1500],
     [type |-> "next", has_power |-> TRUE, power |-> -500],
     [type |-> "next", has_power |-> FALSE, power |-> 0],
     [type |-> "error", has_power |-> FALSE, power |-> 0],
     [type |-> "complete", has_power |-> FALSE, power |-> 0]}

BlInit ==
    /\ bl_configured = TRUE
    /\ bl_pc = "recv"
    /\ bl_wire = <<>>
    /\ bl_arrived = 0
    /\ bl_power = 0
    /\ bl_produced = <<>>
    /\ bl_posted = <<>>
    /\ bl_completed = <<>>

BlInputs ==
    /\ bl_configured \in BOOLEAN
    /\ bl_pc = "recv"
    /\ bl_wire = <<>>
    /\ bl_arrived = 0
    /\ bl_power = 0
    /\ bl_produced = <<>>
    /\ bl_posted = <<>>
    /\ bl_completed = <<>>

\* the server sends a message: the socket holds it until the loop takes it
BlArrive(m) ==
    /\ bl_arrived < MaxMessages
    /\ bl_pc # "reconnecting"
    /\ bl_wire' = Append(bl_wire, m)
    /\ bl_arrived' = bl_arrived + 1
    /\ UNCHANGED <<bl_configured, bl_pc, bl_power, bl_produced, bl_posted,
                   bl_completed>>
    /\ UNCHANGED <<coreVars, urlVars, ssdpVars, mdnsVars, crcVars, ppVars, cdVars, cnVars, fmVars, dvVars>>

\* `async for message in websocket` hands over the next message only when
\* the loop body has run to its end
BlCanTakeMutant == bl_pc # "reconnecting"
BlCanTake == bl_pc = "recv"

\* one iteration up to its first await: a "next" with a power starts the
\* push, "complete" breaks out of the loop, anything else is logged
BlTake ==
    /\ BlCanTake
    /\ bl_wire # <<>>
    /\ LET m == Head(bl_wire)
       IN  /\ bl_wire' = Tail(bl_wire)
           /\ IF m.type = "next" /\ m.has_power
              THEN /\ bl_pc' = "pushing"
                   /\ bl_power' = m.power
                   /\ bl_produced' = Append(bl_produced, m.power)
                   /\ bl_posted' = IF bl_configured
                                   THEN Append(bl_posted, m.power)
                                   ELSE bl_posted
              ELSE /\ bl_pc' = IF m.type = "complete" THEN "reconnecting" ELSE "recv"
                   /\ UNCHANGED <<bl_power, bl_produced, bl_posted>>
    /\ UNCHANGED <<bl_configured, bl_arrived, bl_completed>>
    /\ UNCHANGED <<coreVars, urlVars, ssdpVars, mdnsVars, crcVars, ppVars, cdVars, cnVars, fmVars, dvVars>>

\* send_http_payload returned in its thread: the POST succeeded, or its
\* exception was logged, or the configuration was missing and it was skipped
BlPushDone(outcome) ==
    /\ bl_pc = "pushing"
    /\ (outcome = "skipped") <=> ~bl_configured
    /\ bl_completed' = Append(bl_completed, bl_power)
    /\ bl_pc' = "recv"
    /\ UNCHANGED <<bl_configured, bl_wire, bl_arrived, bl_power, bl_produced,
                   bl_posted>>
    /\ UNCHANGED <<coreVars, urlVars, ssdpVars, mdnsVars, crcVars, ppVars, cdVars, cnVars, fmVars, dvVars>>

\* the connection closed while the loop waited for a message: `continue`
BlConnectionClosed ==
    /\ bl_pc = "recv"
    /\ bl_arrived > 0
    /\ bl_pc' = "reconnecting"
    /\ UNCHANGED <<bl_configured, bl_wire, bl_arrived, bl_power, bl_produced,
                   bl_posted, bl_completed>>
    /\ UNCHANGED <<coreVars, urlVars, ssdpVars, mdnsVars, crcVars, ppVars, cdVars, cnVars, fmVars, dvVars>>

\* websockets.connect yields a new connection and the handshake is redone:
\* what the old socket held is gone
BlReconnect ==
    /\ bl_pc = "reconnecting"
    /\ bl_pc' = "recv"
    /\ bl_wire' = <<>>
    /\ UNCHANGED <<bl_configured, bl_arrived, bl_power, bl_produced, bl_posted,
                   bl_completed>>
    /\ UNCHANGED <<coreVars, urlVars, ssdpVars, mdnsVars, crcVars, ppVars, cdVars, cnVars, fmVars, dvVars>>

NextLoop ==
    \/ \E m \in LoopMessages : BlArrive(m)
    \/ BlTake
    \/ \E outcome \in {"ok", "failed", "skipped"} : BlPushDone(outcome)
    \/ BlConnectionClosed
    \/ BlReconnect

(***************************************************************************)
(* mDNS browse for the meter, polling: discover_homewizard_p1              *)
(* (sources/discovery_mdns.py).  zeroconf calls the listener's add_service *)
(* in its own thread; the function polls listener.found_ip every 0.1 s     *)
(* until the timeout and closes zeroconf in its `finally`.                 *)
(***************************************************************************)
\* polls that fit in the timeout
MaxPolls == 3

P1Init ==
    /\ dv_proto = "ssdp"
    /\ p1_pc = "polling"
    /\ p1_found_ip = None
    /\ p1_slept = 0
    /\ p1_zc_open = TRUE
    /\ p1_result = None
    /\ p1_seen = 0
    /\ p1_first = None

P1Inputs ==
    /\ dv_proto \in {"ssdp", "mdns"}
    /\ p1_pc = "polling"
    /\ p1_found_ip = None
    /\ p1_slept = 0
    /\ p1_zc_open = TRUE
    /\ p1_result = None
    /\ p1_seen = 0
    /\ p1_first = None

\* HomeWizardListener.add_service: the first advertisement that resolves
\* with the target product type and an address sets found_ip
P1Accepts(ad) ==
    /\ p1_found_ip = None
    /\ ad.resolves
    /\ ad.product_type = TARGET_PRODUCT_TYPE

P1AddService(ad) ==
    /\ p1_zc_open
    /\ p1_seen < MaxAds
    /\ p1_seen' = p1_seen + 1
    /\ IF P1Accepts(ad)
       THEN p1_found_ip' = ad.ip /\ p1_first' = ad.ip
       ELSE UNCHANGED <<p1_found_ip, p1_first>>
    /\ UNCHANGED <<dv_proto, p1_pc, p1_slept, p1_zc_open, p1_result>>
    /\ UNCHANGED <<coreVars, urlVars, ssdpVars, mdnsVars, crcVars, ppVars, cdVars, cnVars, fmVars, blVars>>

\* `while time.time() - start_time < timeout`
P1TimeLeft == p1_slept < MaxPolls

\* one turn of the polling loop: within the timeout a found address is
\* returned, otherwise the loop sleeps; after the timeout None is returned;
\* `finally: zeroconf.close()` on either return
P1Poll ==
    /\ p1_pc = "polling"
    /\ IF P1TimeLeft /\ p1_found_ip = None
       THEN /\ p1_slept' = p1_slept + 1
            /\ UNCHANGED <<p1_pc, p1_result, p1_zc_open>>
       ELSE /\ p1_result' = IF P1TimeLeft THEN p1_found_ip ELSE None
            /\ p1_pc' = "done"
            /\ p1_zc_open' = FALSE
            /\ UNCHANGED p1_slept
    /\ UNCHANGED <<dv_proto, p1_found_ip, p1_seen, p1_first>>
    /\ UNCHANGED <<coreVars, urlVars, ssdpVars, mdnsVars, crcVars, ppVars, cdVars, cnVars, fmVars, blVars>>

NextMdnsP1 ==
    \/ \E ad \in Ads : P1AddService(ad)
    \/ P1Poll

\* one discovery call: the SSDP search or the polling mDNS browse
NextDiscovery ==
    \/ dv_proto = "ssdp" /\ SsdpSearch
    \/ dv_proto = "ssdp" /\ SsdpSearchError
    \/ dv_proto = "ssdp" /\ \E m \in Replies : SsdpReply(m)
    \/ dv_proto = "ssdp" /\ SsdpTimeout
    \/ dv_proto = "mdns" /\ \E ad \in Ads : P1AddService(ad)
    \/ dv_proto = "mdns" /\ P1Poll

(***************************************************************************)
(* Specifications.                                                         *)
(***************************************************************************)
CoreInit ==
    /\ MonInit
    /\ Hw1Init
    /\ Hw2Init
    /\ TibInit
    /\ SerInit
    /\ LmInit

Init ==
    /\ source \in Sources
    /\ CoreInit
    /\ UrlInit
    /\ SsdpInit
    /\ MdnsInit
    /\ CrcInit
    /\ ParseInit
    /\ CdInit
    /\ CnInit
    /\ FmInit
    /\ BlInit
    /\ P1Init

\* _replace_host over the configured urls
InitUrl ==
    /\ source = "tibber"
    /\ CoreInit
    /\ UrlInputs
    /\ SsdpInit
    /\ MdnsInit
    /\ CrcInit
    /\ ParseInit
    /\ CdInit
    /\ CnInit
    /\ FmInit
    /\ BlInit
    /\ P1Init

\* _validate_crc over the telegrams that carry their CRC
InitCrc ==
    /\ source = "p1-serial"
    /\ CoreInit
    /\ UrlInit
    /\ SsdpInit
    /\ MdnsInit
    /\ CrcInputs
    /\ ParseInit
    /\ CdInit
    /\ CnInit
    /\ FmInit
    /\ BlInit
    /\ P1Init

\* _parse_power over the lists of telegram lines
InitParse ==
    /\ source = "p1-serial"
    /\ CoreInit
    /\ UrlInit
    /\ SsdpInit
    /\ MdnsInit
    /\ CrcInit
    /\ ParseInputs
    /\ CdInit
    /\ CnInit
    /\ FmInit
    /\ BlInit
    /\ P1Init

\* the start of the process over the source names and configurations
InitConnect ==
    /\ source = "tibber"
    /\ CoreInit
    /\ UrlInit
    /\ SsdpInit
    /\ MdnsInit
    /\ CrcInit
    /\ ParseInit
    /\ CdInit
    /\ CnInputs
    /\ FmInit
    /\ BlInit
    /\ P1Init

\* push_to_lametric and push_to_lametric_stale over the pushes of a run
InitFormat ==
    /\ source = "tibber"
    /\ CoreInit
    /\ UrlInit
    /\ SsdpInit
    /\ MdnsInit
    /\ CrcInit
    /\ ParseInit
    /\ CdInit
    /\ CnInit
    /\ FmInputs
    /\ BlInit
    /\ P1Init

\* the stream-consumption loop with and without a sink configuration
InitLoop ==
    /\ source = "tibber"
    /\ CoreInit
    /\ UrlInit
    /\ SsdpInit
    /\ MdnsInit
    /\ CrcInit
    /\ ParseInit
    /\ CdInit
    /\ CnInit
    /\ FmInit
    /\ BlInputs
    /\ P1Init

\* one discovery call, of either protocol
InitDiscovery ==
    /\ source = "tibber"
    /\ CoreInit
    /\ UrlInit
    /\ SsdpInit
    /\ MdnsInit
    /\ CrcInit
    /\ ParseInit
    /\ CdInit
    /\ CnInit
    /\ FmInit
    /\ BlInit
    /\ P1Inputs

\* the serial stream on a port with a meter that sends, or with none
InitSerialPort ==
    /\ source = "p1-serial"
    /\ CoreInit
    /\ UrlInit
    /\ SsdpInit
    /\ MdnsInit
    /\ CrcInit
    /\ ParseInit
    /\ CdInputs
    /\ CnInit
    /\ FmInit
    /\ BlInit
    /\ P1Init

\* the sink over the configurations of its key and url
InitSinkConfig ==
    /\ source = "tibber"
    /\ MonInit
    /\ Hw1Init
    /\ Hw2Init
    /\ TibInit
    /\ SerInit
    /\ LmInputs
    /\ UrlInit
    /\ SsdpInit
    /\ MdnsInit
    /\ CrcInit
    /\ ParseInit
    /\ CdInit
    /\ CnInit
    /\ FmInit
    /\ BlInit
    /\ P1Init

NextSources == NextHttp \/ NextWs \/ NextTibber \/ NextSerial

Next == NextMonitor \/ NextSources \/ NextSink \/ NextUrl \/ NextSsdp
        \/ NextMdns \/ NextCrc \/ NextParse \/ NextTelegram \/ NextConnect
        \/ NextFormat \/ NextLoop \/ NextMdnsP1

Spec == Init /\ [][Next]_vars
SpecMonitor == Init /\ [][NextMonitor]_vars
SpecSources == Init /\ [][NextSources]_vars
SpecSink == Init /\ [][NextSink]_vars
SpecSinkConfig == InitSinkConfig /\ [][NextSink]_vars
SpecUrl == InitUrl /\ [][NextUrl]_vars
SpecSsdp == Init /\ [][NextSsdp]_vars
SpecMdns == Init /\ [][NextMdns]_vars
SpecCrc == InitCrc /\ [][NextCrc]_vars
SpecParse == InitParse /\ [][NextParse]_vars
SpecTelegram == Init /\ [][NextTelegram]_vars
SpecConnect == InitConnect /\ [][NextConnect]_vars
SpecFormat == InitFormat /\ [][NextFormat]_vars
SpecLoop == InitLoop /\ [][NextLoop]_vars

\* the serial stream under the scheduling the code relies on: on a port
\* nothing arrives on, the worker thread's ser.readline returns at its
\* timeout and the loop of _read_telegram goes on
SpecSerialPort ==
    /\ InitSerialPort
    /\ [][NextTelegram]_vars
    /\ WF_vars(cd_silent /\ CdReadLine(<<>>))

\* a discovery call under the scheduling the code relies on: the endpoint
\* is created or fails, the timer of wait_for fires, the polling loop runs
SpecDiscovery ==
    /\ InitDiscovery
    /\ [][NextDiscovery]_vars
    /\ WF_vars(dv_proto = "ssdp" /\ (SsdpSearch \/ SsdpSearchError))
    /\ WF_vars(dv_proto = "ssdp" /\ SsdpTimeout)
    /\ WF_vars(dv_proto = "mdns" /\ P1Poll)

(***************************************************************************)
(* Staleness monitor: properties.                                          *)
(***************************************************************************)
\* C1: within one continuous staleness episode (consecutive checks that all
\* find the age above the threshold) at most one stale indicator is pushed,
\* however many checks run.
C1_AtMostOneAlertPerEpisode == mon_episode_pushes <= 1

\* a second check of the same episode has run and the clock has moved on
C1_Witness ==
    /\ mon_last_check = "stale"
    /\ mon_episode_pushes = 1
    /\ alert_sent
    /\ now - last_reading_time > StaleThreshold + 1

\* C2: a check that finds the age back under the threshold clears alert_sent,
\* and every staleness episode the checks see, the first as well as each one
\* after a re-arm, has produced exactly one stale push.
C2_RearmedOncePerEpisode ==
    /\ mon_last_check = "fresh" => ~alert_sent
    /\ mon_last_check = "stale" => alert_sent /\ mon_episode_pushes = 1
    /\ mon_stale_pushes = mon_episodes

\* a second episode, after a re-arm, has alerted
C2_Witness ==
    /\ mon_episodes = 2
    /\ mon_stale_pushes = 2
    /\ mon_last_check = "stale"

LastEvent(trace) == IF Len(trace) = 0 THEN <<"none", "none">> ELSE trace[Len(trace)]

\* C3 as stated: in Local-HTTP-Poll, Local-WS and Local-Serial the
\* consecutive-failure counter is 0 once a Reading has been yielded.
C3_Original ==
    /\ hw1_last = "reading" => hw1_consecutive_errors = 0
    /\ ser_last = "reading" => ser_consecutive_errors = 0
    /\ LastEvent(hw2_trace) = Yield => hw2_consecutive_failures = 0

\* the part of C3 that is about Local-HTTP-Poll and Local-Serial
C3_HttpAndSerialReset ==
    /\ hw1_last = "reading" => hw1_consecutive_errors = 0
    /\ ser_last = "reading" => ser_consecutive_errors = 0

\* the ways a Cloud-WS connection ends, connection_error aside
TibEndEvents ==
    {<<"fail", k>> : k \in FailureKinds} \cup {<<"closed", "ok">>, Recv("complete")}

\* C5 as stated: whenever a Cloud-WS connection has ended the stream is not
\* terminated and has waited the fixed 5 s before the next connection attempt.
C5_Original ==
    LastEvent(tib_trace) \in TibEndEvents =>
        (tib_pc = "connect" /\ tib_slept = RECONNECT_DELAY)

\* the part of C5 that is about connections that end with an exception
C5_DelayAfterFailure ==
    (tib_pc = "connect" /\ LastEvent(tib_trace) \in {<<"fail", k>> : k \in FailureKinds})
        => tib_slept = RECONNECT_DELAY

\* C6 as stated: once re-discovery has swapped the endpoint, a connection of
\* the same stream is one to the current ws_url.
C6_Original ==
    hw2_pc \in {"await_request", "await_response", "data"} => hw2_peer = hw2_ws_url

\* C7: on every Cloud-WS connection connection_init is the first event,
\* subscribe is sent only after connection_ack was received, a Reading is
\* yielded only after subscribe was sent, and nothing is yielded after
\* complete.
C7_CloudWsHandshakeOrder ==
    /\ tib_conns > 0 => (Len(tib_trace) > 0 /\ tib_trace[1] = Sent("connection_init"))
    /\ OnlyAfter(tib_trace, Sent("subscribe"), Recv("connection_ack"))
    /\ OnlyAfter(tib_trace, Yield, Sent("subscribe"))
    /\ \A i \in 1..Len(tib_trace) : \A j \in (i + 1)..Len(tib_trace) :
          tib_trace[i] = Recv("complete") => tib_trace[j] /= Yield

\* a connection that was acknowledged, yielded and was then completed
C7_Witness ==
    /\ Has(tib_trace, Yield)
    /\ LastEvent(tib_trace) = Recv("complete")
    /\ tib_pc = "connect"

\* C8: on every Local-WS connection the token is sent only in answer to
\* authorization_requested as the first message, subscribe only after
\* authorized, a Reading is yielded only after subscribe was sent, and a
\* connection whose first message is something else sends nothing.
C8_LocalWsHandshakeOrder ==
    /\ \A i \in 1..Len(hw2_trace) :
          hw2_trace[i] = Sent("authorization") =>
              (i = 2 /\ hw2_trace[1] = Recv("authorization_requested"))
    /\ OnlyAfter(hw2_trace, Sent("subscribe"), Recv("authorized"))
    /\ OnlyAfter(hw2_trace, Yield, Sent("subscribe"))
    /\ (Len(hw2_trace) > 0 /\ hw2_trace[1] /= Recv("authorization_requested")) =>
          \A i \in 1..Len(hw2_trace) : hw2_trace[i][1] \notin {"send", "yield"}

\* a later connection that went through the whole handshake and yielded
C8_Witness ==
    /\ hw2_conns >= 2
    /\ Has(hw2_trace, Yield)
    /\ hw2_trace[1] = Recv("authorization_requested")

\* the handshake of the latest connection was rejected
TibRejected == Has(tib_trace, Recv("connection_error"))
Hw2Rejected == Len(hw2_trace) >= 3 /\ hw2_trace[3] = Recv("error")

\* C9 as amended: a Cloud-WS connection_error ends the stream for good,
\* without a subscribe; a Local-WS "error" reply to the token is not fatal: no
\* subscribe is sent on that connection, no failure is counted, and after
\* 5 s the stream takes the next connection and handshakes again.
C9_RejectionHandling ==
    /\ [](TibRejected => (/\ tib_pc = "done"
                          /\ LastEvent(tib_trace) = Recv("connection_error")
                          /\ ~Has(tib_trace, Sent("subscribe"))))
    /\ [][TibRejected => UNCHANGED tibVars]_vars
    /\ [](Hw2Rejected => (/\ hw2_pc = "connect"
                          /\ Len(hw2_trace) = 3
                          /\ hw2_slept = RECONNECT_DELAY))
    /\ [][(Hw2Rejected /\ hw2_conns' /= hw2_conns) =>
            (hw2_pc' = "await_request" /\ hw2_conns' = hw2_conns + 1)]_vars
    /\ [][hw2_rejections' /= hw2_rejections =>
            hw2_consecutive_failures' = hw2_consecutive_failures]_vars

\* the Local-WS handshake was rejected, retried and rejected again
C9_Witness ==
    /\ hw2_rejections = 2
    /\ Hw2Rejected
    /\ hw2_conns >= 2

\* C9 as stated: after a rejected handshake, Cloud-WS or Local-WS, the stream
\* is over: no further connection is opened.
C9_Original ==
    [][/\ TibRejected => tib_conns' = tib_conns
       /\ Hw2Rejected => hw2_conns' = hw2_conns]_vars

(***************************************************************************)
(* Sink: properties.                                                       *)
(***************************************************************************)
\* C10: a push makes at most 2 POSTs and at most 1 re-discovery; after a
\* first POST that failed with a connection error, (a) with a discovered
\* endpoint exactly one re-discovery is made and, if it finds an address,
\* exactly one retried POST, after which the push is over whatever the
\* retry's outcome; (b) with a configured endpoint neither happens.
C10_OneRediscoveryOneRetry ==
    \A t \in Tasks :
        /\ lm_posts[t] <= 2
        /\ lm_rediscoveries[t] <= 1
        /\ lm_rediscoveries[t] = 1 =>
              (lm_first[t] = "connection_error" /\ lm_could[t])
        /\ (lm_first[t] = "connection_error" /\ lm_could[t]) =>
              /\ lm_rediscoveries[t] = 1
              /\ lm_found[t] = None => (lm_posts[t] = 1 /\ lm_pc[t] = "idle")
              /\ lm_found[t] \in LmAddresses =>
                    \/ lm_posts[t] = 1 /\ lm_pc[t] = "retrying"
                    \/ lm_posts[t] = 2 /\ lm_pc[t] = "idle"
        /\ (lm_first[t] = "connection_error" /\ ~lm_could[t]) =>
              (lm_rediscoveries[t] = 0 /\ lm_posts[t] = 1 /\ lm_pc[t] = "idle")
        /\ lm_posts[t] = 2 => lm_rediscoveries[t] = 1

\* a push whose first POST failed, that re-discovered and retried once
C10_Witness ==
    \E t \in Tasks :
        /\ lm_first[t] = "connection_error"
        /\ lm_rediscoveries[t] = 1
        /\ lm_posts[t] = 2
        /\ lm_pc[t] = "idle"

\* C11: over any interleaving of the pushes of the stream task and the
\* monitor task on the one URL manager the initial SSDP discovery is started
\* at most once, also when a push begins while that discovery is still
\* waiting; every push that begins after the discovery was started starts no
\* discovery and takes the cached result as it is then: the url of the
\* discovered address, or the configured url while nothing is cached.
C11_DiscoveryStartedOnce ==
    /\ [](lm_discoveries <= 1)
    /\ [][\A t \in Tasks :
            (lm_pc[t] = "idle" /\ lm_pc'[t] /= "idle" /\ lm_discovery_attempted) =>
                /\ lm_discoveries' = lm_discoveries
                /\ lm_pc'[t] = "posting"
                /\ lm_got'[t] = lm_discovered_ip
                /\ lm_url'[t] = (IF lm_discovered_ip = None THEN LAMETRIC_URL
                                 ELSE [LAMETRIC_URL EXCEPT !.host = lm_discovered_ip])]_vars

\* the monitor task is in its second push while the first discovery, started
\* by the stream task, is still waiting
C11_Witness ==
    /\ lm_pc["stream"] = "discovering"
    /\ lm_pushes["monitor"] = 2
    /\ lm_pc["monitor"] = "posting"
    /\ lm_url["monitor"] = LAMETRIC_URL
    /\ lm_discoveries = 1

\* C12 as amended: with a fully specified url configured, the first POST of
\* every push goes to the configured url with only the host replaced by the
\* address SSDP discovery has cached, and to the configured url itself only
\* while no address is cached; the retried POST goes to the configured url
\* with the host replaced by the re-discovered address; port, path and secret
\* are those configured.
C12_HostReplacedByDiscovery ==
    \A t \in Tasks :
        /\ (lm_pc[t] = "posting") =>
              /\ lm_got[t] = None => lm_url[t] = LAMETRIC_URL
              /\ lm_got[t] /= None =>
                    /\ lm_got[t] \in LmAddresses
                    /\ lm_url[t] = [LAMETRIC_URL EXCEPT !.host = lm_got[t]]
        /\ (lm_pc[t] = "retrying") =>
              /\ lm_found[t] \in LmAddresses
              /\ lm_url[t] = [LAMETRIC_URL EXCEPT !.host = lm_found[t]]

\* a push is being posted to a discovered address, not to the configured host
C12_Witness ==
    \E t \in Tasks :
        /\ lm_pc[t] = "posting"
        /\ lm_got[t] \in LmAddresses
        /\ lm_url[t].host /= LAMETRIC_URL.host
        /\ lm_url[t].path = LAMETRIC_URL.path

\* C12 as stated: every push is sent to exactly the configured url, host
\* included.
C12_Original ==
    \A t \in Tasks : lm_pc[t] \in {"posting", "retrying"} => lm_url[t] = LAMETRIC_URL

(***************************************************************************)
(* Host substitution: properties.                                          *)
(***************************************************************************)
\* the latest host substituted
LastHost == rh_hosts[Len(rh_hosts)]

ValidResponders == {sd_replies[i].ip : i \in {j \in 1..Len(sd_replies) : sd_replies[j].ok /\ sd_replies[j].urn}}

RECURSIVE FirstValidIp(_)
FirstValidIp(replies) ==
    IF replies = <<>> THEN None
    ELSE IF Head(replies).ok /\ Head(replies).urn THEN Head(replies).ip
    ELSE FirstValidIp(Tail(replies))

\* C14 as amended: a finished search that got no valid reply within the
\* timeout has failed (None); one that got valid replies, from one address
\* or from several, returns the address of the first valid reply, and the
\* replies after it change nothing: no ambiguity is detected.
C14_FirstValidReplyWins ==
    /\ [](sd_pc = "done" => sd_result = FirstValidIp(sd_replies))
    /\ [](sd_pc = "listening" => ValidResponders = {})
    /\ [][sd_pc = "done" => (sd_pc' = "done" /\ sd_result' = sd_result)]_vars

\* two addresses gave valid replies within the timeout and the first one was
\* returned
C14_Witness ==
    /\ sd_pc = "done"
    /\ sd_elapsed
    /\ Cardinality(ValidResponders) = 2
    /\ sd_result = FirstValidIp(sd_replies)
    /\ sd_result \in LmAddresses

\* C14 as stated: no valid responder: failure; one distinct responding
\* address: that address; two or more: failure, none of them returned.
C14_Original ==
    sd_pc = "done" =>
        /\ Cardinality(ValidResponders) = 0 => sd_result = None
        /\ Cardinality(ValidResponders) = 1 => sd_result \in ValidResponders
        /\ Cardinality(ValidResponders) >= 2 => sd_result = None

(***************************************************************************)
(* mDNS browse: properties.                                                *)
(***************************************************************************)
\* the address of the first resolved advertisement of the expected product
\* type
RECURSIVE FirstMatchingIp(_)
FirstMatchingIp(ads) ==
    IF ads = <<>> THEN None
    ELSE IF Head(ads).resolves /\ Head(ads).product_type = TARGET_PRODUCT_TYPE
         THEN Head(ads).ip
    ELSE FirstMatchingIp(Tail(ads))

\* C15 as stated: the browse the Local-WS source calls returns the address
\* of the first advertisement whose product type is the expected meter
\* model, whatever comes after it, and never the address of an advertisement
\* with another or no product type.
C15_Original == md_pc = "done" => md_result = FirstMatchingIp(md_ads)

\* what does hold of discover_homewizard: it returns the address of the
\* latest advertisement that resolved before zeroconf was closed, whatever
\* its product type
RECURSIVE LastResolvedIp(_)
LastResolvedIp(ads) ==
    IF ads = <<>> THEN None
    ELSE IF ads[Len(ads)].resolves THEN ads[Len(ads)].ip
    ELSE LastResolvedIp(SubSeq(ads, 1, Len(ads) - 1))

C15_ReturnsLatestResolved == md_pc = "done" => md_result = LastResolvedIp(md_ads)

(***************************************************************************)
(* CRC16 validation: properties.                                           *)
(***************************************************************************)
\* C18: a telegram whose terminator line encodes the CRC16 (polynomial
\* 0xA001, initial value 0, a number in 0..0xFFFF) of its bytes from '/'
\* through '!' is valid for _validate_crc, and the same telegram with one
\* byte of that range replaced by a different byte is not.
C18_CrcAcceptsValidRejectsCorrupted ==
    /\ crc_at = <<0, 0>> => _calculate_crc16(CrcText(crc_given)) \in 0..65535
    /\ (crc_valid /= "unknown" /\ crc_at = <<0, 0>>) => crc_valid = "True"
    /\ (crc_valid /= "unknown" /\ crc_at /= <<0, 0>>) => crc_valid = "False"

\* a byte of a data line of a telegram with three lines before the
\* terminator was replaced, and the telegram was rejected
C18_Witness ==
    /\ Len(crc_telegram) = 4
    /\ crc_at[1] = 3
    /\ crc_given /= crc_telegram
    /\ crc_valid = "False"

(***************************************************************************)
(* OBIS parsing: properties.                                               *)
(***************************************************************************)
IsPowerLine(line) == line.code \in {OBIS_CONSUMPTION, OBIS_PRODUCTION}

\* the kW values (times 1000) the lines with the given code carry
ValuesOf(telegram, code) ==
    {FloatTimes1000(telegram[i].num) : i \in {j \in 1..Len(telegram) : telegram[j].code = code}}

\* what the claim says _parse_power does with a list of lines
ParsesAsClaimed(telegram, result) ==
    LET cons == ValuesOf(telegram, OBIS_CONSUMPTION)
        prod == ValuesOf(telegram, OBIS_PRODUCTION)
    IN  /\ result.returns /= "ValueError"
        /\ result.timestamp = None
        /\ (cons = {} /\ prod = {}) => result.returns = "None"
        /\ (cons /= {} /\ prod = {}) =>
              result.returns = "PowerReading" /\ result.power_watts \in cons
        /\ (cons = {} /\ prod /= {}) =>
              result.returns = "PowerReading" /\ 0 - result.power_watts \in prod
        /\ (cons /= {} /\ prod /= {}) =>
              /\ result.returns = "PowerReading"
              /\ \E c \in cons, q \in prod : result.power_watts = c - q
        /\ result = _parse_power(SelectSeq(telegram, IsPowerLine))

\* C19: over any list of telegram lines _parse_power gives consumption x 1000
\* W, -(production x 1000) W or their difference according to the codes
\* present, gives no Reading and raises no error when neither is present, is
\* not affected by lines with other codes, and leaves the timestamp None.
C19_Original ==
    pp_result.returns /= "unknown" => ParsesAsClaimed(pp_telegram, pp_result)

\* float() raises on a line of the telegram: the pattern matches it and the
\* text in its parentheses is no number
FloatRaises(telegram) ==
    \E i \in 1..Len(telegram) :
        PatternMatches(telegram[i]) /\ FloatTimes1000(telegram[i].num) = NotANumber

\* what _parse_power does: ValueError exactly for the telegrams float() raises
\* on, for every other telegram what the claim says
C19_ParsesUnlessFloatRaises ==
    pp_result.returns /= "unknown" =>
        IF FloatRaises(pp_telegram) THEN pp_result.returns = "ValueError"
        ELSE ParsesAsClaimed(pp_telegram, pp_result)

(***************************************************************************)
(* Local-Serial stream: retry budget.                                      *)
(***************************************************************************)
SerFailures == {"no_telegram", "parse_error"}

\* the failed reads at the end of hist with no Reading among them; a
\* telegram without power codes is passed over
RECURSIVE FailuresSinceReading(_)
FailuresSinceReading(hist) ==
    IF hist = <<>> \/ hist[Len(hist)] = "reading" THEN 0
    ELSE FailuresSinceReading(SubSeq(hist, 1, Len(hist) - 1))
         + (IF hist[Len(hist)] \in SerFailures THEN 1 ELSE 0)

\* C20: a failed read below max_retries consecutive failures leaves the
\* stream running after a short delay; the stream has ended exactly when
\* max_retries reads have failed with no Reading in between; a telegram
\* without power codes neither adds to the count nor resets it.
C20_EndsAtMaxConsecutiveFailures ==
    /\ ser_state = "done" <=> FailuresSinceReading(ser_hist) >= ser_max_retries
    /\ ser_state = "done" => FailuresSinceReading(ser_hist) = ser_max_retries
    /\ (ser_state = "streaming" /\ ser_last \in SerFailures) =>
           ser_slept \in {NO_TELEGRAM_DELAY, READ_ERROR_DELAY}
    /\ ser_consecutive_errors = FailuresSinceReading(ser_hist)

\* the stream ended on the fifth failure, with a telegram without power
\* codes read between two of the failures
C20_Witness ==
    /\ ser_state = "done"
    /\ ser_consecutive_errors = ser_max_retries
    /\ \E i \in 2..Len(ser_hist) : ser_hist[i] = "no_power" /\ ser_hist[i - 1] \in SerFailures

(***************************************************************************)
(* Telegram codec: properties.                                             *)
(***************************************************************************)
\* tail is the end of whole
IsSuffix(tail, whole) ==
    /\ Len(tail) <= Len(whole)
    /\ SubSeq(whole, Len(whole) - Len(tail) + 1, Len(whole)) = tail

\* C16: after a terminator line whose CRC does not match, the buffer is
\* empty and the codec is idle; the step that finds the mismatch yields no
\* Reading, leaves the stream's failure count as it is and does not end the
\* read; and the lines of a collected or returned telegram were all received
\* after the latest discarded telegram.
C16_MismatchDiscardsSilently ==
    /\ [](cd_last = "crc_mismatch" => cd_telegram = <<>> /\ ~cd_in_telegram)
    /\ [](IsSuffix(cd_telegram, cd_epoch))
    /\ [](cd_last = "telegram" => IsSuffix(cd_returned, cd_epoch))
    /\ [][(cd_lines' /= cd_lines /\ cd_last' = "crc_mismatch") => UNCHANGED serVars]_vars

\* after a failed read, a telegram with a power line arrived with a wrong
\* CRC and was discarded
C16_Witness ==
    /\ cd_last = "crc_mismatch"
    /\ cd_fed = cd_sent
    /\ cd_fed = HeaderLine \o CRLF \o PowerLine \o CRLF \o <<33>>
    /\ ser_consecutive_errors = 1
    /\ ser_out = <<>>

\* C17: the bytes fed to the CRC16 at a validation are exactly the bytes
\* received from the opening '/' through the '!', blank lines and line
\* terminators included.
C17_Original ==
    cd_last \in {"telegram", "crc_mismatch"} => cd_fed = cd_sent

(***************************************************************************)
(* Local-Serial stream: reopening the port.                                *)
(***************************************************************************)
\* C21: when a serial read fails, the port is found closed and the stream
\* goes on, the stream calls ser.open() before the next telegram read.
C21_Original ==
    [][(cd_lines' /= cd_lines /\ cd_last' = "read_error" /\ ~cd_port_open'
        /\ ser_state' = "streaming") => cd_reopens' = cd_reopens + 1]_vars

\* what stream() does: the port is never reopened, and once it is closed
\* every read fails
C21_NeverReopens ==
    /\ cd_reopens = 0
    /\ ~cd_port_open => cd_last = "read_error"

(***************************************************************************)
(* Samples without the power field.                                        *)
(***************************************************************************)
\* every sample of the trace that carries power is followed by its Reading,
\* and every Reading follows such a sample
YieldsFollow(trace, sample) ==
    \A i \in 1..Len(trace) :
        /\ trace[i] = Recv(sample) => (i < Len(trace) /\ trace[i + 1] = Yield)
        /\ trace[i] = Yield => (i > 1 /\ trace[i - 1] = Recv(sample))

\* C22: in every source a sample that lacks the power field yields no
\* Reading, does not end the stream or the connection, and leaves the
\* consecutive-failure counter and the backoff delay as they were; a sample
\* that carries the field is yielded, after such a sample as well.
C22_SampleWithoutPowerSkipped ==
    /\ [][(hw1_requests' /= hw1_requests /\ hw1_last' = "nofield") =>
            UNCHANGED <<hw1_out, hw1_state, hw1_client, hw1_consecutive_errors,
                        hw1_retry_delay>>]_vars
    /\ [][(hw1_requests' /= hw1_requests /\ hw1_last' = "reading") =>
            Len(hw1_out') = Len(hw1_out) + 1]_vars
    /\ [][(ser_reads' /= ser_reads /\ ser_last' = "no_power") =>
            UNCHANGED <<ser_out, ser_state, ser_consecutive_errors>>]_vars
    /\ [][(ser_reads' /= ser_reads /\ ser_last' = "reading") =>
            Len(ser_out') = Len(ser_out) + 1]_vars
    /\ [][(hw2_trace' /= hw2_trace
            /\ LastEvent(hw2_trace') = Recv("measurement_without_power")) =>
            /\ hw2_trace' = Append(hw2_trace, Recv("measurement_without_power"))
            /\ UNCHANGED <<hw2_pc, hw2_conns, hw2_consecutive_failures>>]_vars
    /\ [][(tib_trace' /= tib_trace
            /\ LastEvent(tib_trace') = Recv("next_without_power")) =>
            /\ tib_trace' = Append(tib_trace, Recv("next_without_power"))
            /\ UNCHANGED <<tib_pc, tib_conns>>]_vars
    /\ [](YieldsFollow(hw2_trace, "measurement") /\ YieldsFollow(tib_trace, "next"))

\* after a failed read, a telegram without power codes was skipped with the
\* count kept, and the telegram after it was yielded
C22_Witness ==
    /\ Len(ser_hist) = 3
    /\ ser_hist[1] \in SerFailures
    /\ ser_hist[2] = "no_power"
    /\ ser_hist[3] = "reading"
    /\ Len(ser_out) = 1

(***************************************************************************)
(* Local-HTTP-Poll: backoff and yielded Readings.                          *)
(***************************************************************************)
Hw1Failures == {"busy"} \cup ErrorKinds

C24_OneReadingPerResponse ==
    /\ [](/\ Len(hw1_out) = Len(hw1_resp)
          /\ \A i \in 1..Len(hw1_resp) :
                /\ hw1_out[i].power_watts = hw1_resp[i]
                /\ hw1_out[i].timestamp = None
          /\ hw1_requests >= Len(hw1_out))
    /\ [][Len(hw1_out') /= Len(hw1_out) =>
            /\ hw1_requests' = hw1_requests + 1
            /\ Len(hw1_out') = Len(hw1_out) + 1
            /\ hw1_last' = "reading"]_vars
    /\ [][(hw1_requests' /= hw1_requests /\ hw1_last' = "reading") =>
            Len(hw1_out') = Len(hw1_out) + 1]_vars

\* three responses with 1500, -500 and 0 W gave three Readings in three
\* requests
C24_Witness ==
    /\ hw1_resp = <<1500, -500, 0>>
    /\ Len(hw1_out) = 3
    /\ hw1_out[2].power_watts = -500
    /\ hw1_out[3].power_watts = 0
    /\ hw1_requests = 3

(***************************************************************************)
(* Local-WS: unrecognized messages.                                        *)
(***************************************************************************)
\* a message of an unrecognized type was received and the next message, a
\* measurement, was yielded
SystemThenYield(trace) ==
    \E i \in 1..(Len(trace) - 2) :
        /\ trace[i] = Recv("system")
        /\ trace[i + 1] = Recv("measurement")
        /\ trace[i + 2] = Yield

\* C25: a data-loop message whose type is not a recognized one yields no
\* Reading, leaves the connection, the position in the loop and the
\* consecutive-failure counter as they are, and a measurement received after
\* it is yielded.
C25_UnknownTypeIgnored ==
    /\ [][(hw2_pc = "data" /\ hw2_trace' /= hw2_trace
            /\ LastEvent(hw2_trace') = Recv("system")) =>
            /\ hw2_trace' = Append(hw2_trace, Recv("system"))
            /\ UNCHANGED <<hw2_pc, hw2_conns, hw2_consecutive_failures, hw2_slept,
                           hw2_host, hw2_ws_url>>]_vars
    /\ [](\A i \in 1..Len(hw2_trace) :
            hw2_trace[i] = Recv("measurement") =>
                (i < Len(hw2_trace) /\ hw2_trace[i + 1] = Yield))
    /\ [](\A i \in 2..Len(hw2_trace) :
            hw2_trace[i] = Yield => hw2_trace[i - 1] /= Recv("system"))

\* after an earlier failure, an unrecognized message and then a yielded
\* measurement on one connection, the counter still at 1
C25_Witness ==
    /\ SystemThenYield(hw2_trace)
    /\ LastEvent(hw2_trace) = Yield
    /\ hw2_consecutive_failures = 1
    /\ hw2_pc = "data"

\* the homes of the response with real-time consumption enabled, by position
EnabledAt(homes) == {i \in 1..Len(homes) : homes[i].enabled}

\* connect() of the Tibber source has returned, or ended the process
TibberConnectDone == cn_name = "tibber" /\ cn_pc \in {"connected", "streaming", "exited"}

\* C26: TibberSource.connect selects the first home of the response with
\* real-time consumption enabled; when the response has no subscription URL
\* or no enabled home the process exits with status 1 and no streaming
\* connection is opened; when connect() returns, the URL and the home id
\* are both set.
C26_FirstEnabledHomeOrExit ==
    /\ (TibberConnectDone /\ cn_pc # "exited") =>
          /\ cn_wss_url # None
          /\ EnabledAt(cn_homes) # {}
          /\ \E i \in EnabledAt(cn_homes) :
                /\ cn_home_id = cn_homes[i].id
                /\ \A j \in EnabledAt(cn_homes) : i <= j
    /\ (TibberConnectDone /\ (cn_wss_url = None \/ EnabledAt(cn_homes) = {})) =>
          /\ cn_pc = "exited"
          /\ cn_exit = 1
          /\ \A k \in 1..Len(cn_ops) : cn_ops[k] # "stream"
    /\ (cn_name = "tibber" /\ cn_pc = "exited") =>
          /\ cn_exit = 1
          /\ \A k \in 1..Len(cn_ops) : cn_ops[k] # "stream"

C26_Witness ==
    /\ cn_name = "tibber"
    /\ cn_pc = "streaming"
    /\ Len(cn_homes) = 3
    /\ EnabledAt(cn_homes) = {2, 3}
    /\ cn_home_id = "home-2"

\* the response carried a URL and no enabled home, and the process exited
C26_WitnessExit ==
    /\ cn_name = "tibber"
    /\ cn_pc = "exited"
    /\ cn_wss_url # None
    /\ Len(cn_homes) = 2
    /\ EnabledAt(cn_homes) = {}

\* what the selected source requires of the configuration is not all there:
\* the name is unknown, or the credential, host or device path of the
\* source is missing (the Local-WS host may be discovered, its token not)
RequiredMissing ==
    \/ cn_name \notin Sources
    \/ cn_name \in {"tibber", "homewizard-v2"} /\ ~cn_token
    \/ cn_name = "homewizard-v1" /\ ~cn_host
    \/ cn_name = "p1-serial" /\ ~cn_device

\* the process has ended with status 1 and has started no operation
ExitedAtOnce == cn_pc = "exited" /\ cn_exit = 1 /\ cn_ops = <<>>

\* C27: with a required credential, host or device path missing, or an
\* unknown source name, the process exits with status 1 before any network,
\* discovery or serial operation is started, whatever the source.
C27_Original ==
    RequiredMissing => (cn_pc \in {"start", "constructed"} \/ ExitedAtOnce)

\* what holds instead: the same, except that the Local-WS source without a
\* host runs the discovery before it looks at its token
C27_ExceptDiscoveryFirst ==
    (RequiredMissing /\ ~(cn_name = "homewizard-v2" /\ cn_ops # <<>>)) =>
        (cn_pc \in {"start", "constructed"} \/ ExitedAtOnce)

\* reading a text back: the value of a digit, of a run of digits
IsDigitChar(c) == \E d \in 1..10 : DigitChars[d] = c
DigitValue(c) == (CHOOSE d \in 1..10 : DigitChars[d] = c) - 1
RECURSIVE NumberOf(_)
NumberOf(chars) ==
    IF chars = <<>> THEN 0
    ELSE 10 * NumberOf(SubSeq(chars, 1, Len(chars) - 1)) + DigitValue(chars[Len(chars)])

\* chars is the decimal numeral of a natural number, without leading zeros
IsNumeral(chars) ==
    /\ chars # <<>>
    /\ \A i \in 1..Len(chars) : IsDigitChar(chars[i])
    /\ Len(chars) > 1 => chars[1] # "0"

\* body is the numeral of |w|, with a leading minus sign exactly when w < 0
IsSigned(body, w) ==
    /\ body # <<>>
    /\ (body[1] = "-") <=> (w < 0)

Unsigned(body) == IF body # <<>> /\ body[1] = "-" THEN Tail(body) ELSE body

\* text is the integer w followed by " W"
IsWattsText(text, w) ==
    /\ Len(text) >= 3
    /\ SubSeq(text, Len(text) - 1, Len(text)) = <<" ", "W">>
    /\ LET body == SubSeq(text, 1, Len(text) - 2)
       IN  /\ IsSigned(body, w)
           /\ IsNumeral(Unsigned(body))
           /\ NumberOf(Unsigned(body)) = Abs(w)

\* text is w watts in kilowatts with exactly one decimal, followed by " kW"
IsKilowattsText(text, w) ==
    /\ Len(text) >= 6
    /\ SubSeq(text, Len(text) - 2, Len(text)) = <<" ", "k", "W">>
    /\ LET body == SubSeq(text, 1, Len(text) - 3)
           u == Unsigned(body)
       IN  /\ IsSigned(body, w)
           /\ Len(u) >= 3
           /\ u[Len(u) - 1] = "."
           /\ IsDigitChar(u[Len(u)])
           /\ IsNumeral(SubSeq(u, 1, Len(u) - 2))
           /\ LET k == 10 * NumberOf(SubSeq(u, 1, Len(u) - 2)) + DigitValue(u[Len(u)])
              IN  100 * k - Abs(w) \in -50..50

\* the frames sent for Readings, by position
ReadingFrames == {i \in 1..Len(fm_sent) : ~fm_pushed[i].stale}

\* the examples: power_watts in tenths, and the text
FormatExamples ==
    {<<15000, <<"1", "5", "0", "0", " ", "W">>>>,
     <<-5000, <<"-", "5", "0", "0", " ", "W">>>>,
     <<1807, <<"1", "8", "1", " ", "W">>>>,
     <<105000, <<"1", "0", ".", "5", " ", "k", "W">>>>,
     <<-110000, <<"-", "1", "1", ".", "0", " ", "k", "W">>>>}

\* C28: the text push_to_lametric sends is the watts rounded to an integer
\* followed by " W" when the magnitude of the rounded watts is below 10000,
\* and the kilowatts with exactly one decimal followed by " kW" when it is
\* 10000 or more; 1500, -500, 180.7, 10500 and -11000 give "1500 W",
\* "-500 W", "181 W", "10.5 kW" and "-11.0 kW"; the frame index is 0.
C28_TextByMagnitude ==
    /\ Len(fm_sent) = Len(fm_pushed)
    /\ \A i \in 1..Len(fm_sent) : fm_sent[i].index = 0
    /\ \A i \in ReadingFrames :
          LET t == fm_pushed[i].tenths
          IN  /\ \E w \in {t \div 10, (t \div 10) + 1} :
                    /\ 10 * w - t \in -5..5
                    /\ IF Abs(w) < 10000
                       THEN IsWattsText(fm_sent[i].text, w)
                       ELSE IsKilowattsText(fm_sent[i].text, w)
              /\ \A e \in FormatExamples : e[1] = t => fm_sent[i].text = e[2]

C28_Witness ==
    /\ Len(fm_sent) = 2
    /\ fm_pushed[1] = [stale |-> FALSE, tenths |-> 1807]
    /\ fm_pushed[2] = [stale |-> FALSE, tenths |-> -110000]
    /\ fm_sent[2].text = <<"-", "1", "1", ".", "0", " ", "k", "W">>

\* the frames sent for stale alerts, by position
StaleFrames == {i \in 1..Len(fm_sent) : fm_pushed[i].stale}

\* push_to_lametric never uses the stale icon, and push_to_lametric_stale
\* sends "-- W" with the stale icon whatever was pushed before
StaleIconOnlyWhenStale ==
    /\ \A i \in ReadingFrames : fm_sent[i].icon \in {ICON_POWER, ICON_SOLAR}
    /\ \A i \in StaleFrames :
          /\ fm_sent[i].text = <<"-", "-", " ", "W">>
          /\ fm_sent[i].icon = ICON_STALE

\* C29: push_to_lametric sends the producing icon if and only if the
\* Reading's power_watts is negative, and the consuming icon for every
\* power_watts >= 0; it never sends the stale icon, and
\* push_to_lametric_stale always sends "-- W" with the stale icon.
C29_Original ==
    /\ StaleIconOnlyWhenStale
    /\ \A i \in ReadingFrames :
          /\ (fm_sent[i].icon = ICON_SOLAR) <=> (fm_pushed[i].tenths < 0)
          /\ fm_pushed[i].tenths >= 0 => fm_sent[i].icon = ICON_POWER

\* what holds instead: the icon follows the sign of the rounded watts, so
\* that a power_watts from -0.5 up to 0 gets the consuming icon
C29_IconBySignOfRounded ==
    /\ StaleIconOnlyWhenStale
    /\ \A i \in ReadingFrames :
          /\ (fm_sent[i].icon = ICON_SOLAR) <=> (fm_pushed[i].tenths < -5)
          /\ (fm_sent[i].icon = ICON_SOLAR) <=> (fm_sent[i].text[1] = "-")
          /\ fm_pushed[i].tenths >= -5 => fm_sent[i].icon = ICON_POWER

\* C30: under every interleaving of the stream task and the monitor task,
\* only the stream loop writes last_reading_time, only the monitor writes
\* alert_sent, and a step of the monitor leaves last_reading_time as it is.
C30_SingleWriterPerField ==
    [][ /\ last_reading_time' # last_reading_time =>
              (ReadingArrives /\ alert_sent' = alert_sent)
        /\ alert_sent' # alert_sent =>
              (MonitorCheck /\ last_reading_time' = last_reading_time)
        /\ MonitorCheck => last_reading_time' = last_reading_time ]_vars

\* both fields have been written: a Reading arrived, and a later check
\* alerted while the timestamp stayed
C30_Witness ==
    /\ last_reading_time > 0
    /\ alert_sent
    /\ mon_stale_pushes = 1
    /\ now - last_reading_time > StaleThreshold

\* the Readings taken from the source whose push has not returned yet
PendingReadings == Len(bl_produced) - Len(bl_completed)

IsPrefix(a, b) == Len(a) <= Len(b) /\ a = SubSeq(b, 1, Len(a))

\* C31: the push of a Reading returns before the loop takes the next
\* message from the source: at most one Reading is pending at any time, a
\* message is taken only while none is pending, and the Readings reach the
\* sink in the order in which they were produced.
C31_NoQueueBetweenSourceAndSink ==
    /\ [](/\ PendingReadings \in {0, 1}
          /\ IsPrefix(bl_completed, bl_produced)
          /\ IsPrefix(bl_posted, bl_produced)
          /\ bl_configured => Len(bl_posted) = Len(bl_produced))
    /\ [][bl_wire' # bl_wire /\ bl_arrived' = bl_arrived /\ bl_pc # "reconnecting"
            => PendingReadings = 0]_vars

\* two Readings were pushed one after the other while a third message
\* waited in the socket
C31_Witness ==
    /\ bl_configured
    /\ bl_posted = <<1500, -500>>
    /\ bl_completed = <<1500>>
    /\ bl_pc = "pushing"
    /\ bl_wire # <<>>

\* the discovery call has returned
DiscoveryReturned == IF dv_proto = "ssdp" THEN sd_pc = "done" ELSE p1_pc = "done"

C32_WitnessFound ==
    /\ dv_proto = "mdns"
    /\ p1_pc = "done"
    /\ p1_result # None
    /\ p1_slept = 2
    /\ ~p1_zc_open

\* the device answered the token of the latest connection with "error"
AuthRejected(trace) == Len(trace) >= 3 /\ trace[3] = Recv("error")

\* C33: when the device answers the authorization message with "error",
\* the stream sends no "subscribe" on that connection and yields no
\* Reading; it sleeps the retry delay and takes the next connection, with
\* the failure counter as it was, and it never terminates.
C33_AuthErrorRetriesForever ==
    /\ [](AuthRejected(hw2_trace) =>
            /\ \A i \in 1..Len(hw2_trace) :
                  hw2_trace[i] \notin {Sent("subscribe"), Yield}
            /\ hw2_pc = "connect"
            /\ hw2_slept = RECONNECT_DELAY)
    /\ [][(hw2_pc = "await_response" /\ AuthRejected(hw2_trace')) =>
            /\ hw2_pc' = "connect"
            /\ hw2_slept' = RECONNECT_DELAY
            /\ UNCHANGED <<hw2_consecutive_failures, hw2_discoveries, hw2_host,
                           hw2_connect_uri>>]_vars
    /\ [][(hw2_pc = "connect" /\ hw2_conns < MaxConns) => ENABLED Hw2Connect]_vars
    /\ [](hw2_pc \in {"idle", "connect", "await_request", "await_response", "data"})

\* the token was rejected on two connections and the stream has opened a
\* third one
C33_Witness ==
    /\ hw2_rejections = 2
    /\ hw2_conns = 3
    /\ hw2_pc = "await_request"
    /\ hw2_consecutive_failures = 0

\* C34: the Local-HTTP-Poll stream terminates only after max_retries
\* consecutive non-busy errors, whatever number of 429/503 answers came
\* before or between them: busy answers do not count towards exhaustion.
C34_Original == hw1_state = "done" => hw1_nonbusy >= max_retries

\* what holds instead: a busy answer never ends the stream itself, but it
\* raises the counter the non-busy errors are tested on, so that the stream
\* ends on the non-busy error that brings busy answers and errors since the
\* latest Reading to max_retries or more
C34_BusyCountsTowardsExhaustion ==
    /\ [](hw1_state = "done" =>
            /\ hw1_last \in ErrorKinds
            /\ hw1_nonbusy >= 1
            /\ hw1_consecutive_errors >= max_retries)
    /\ [][hw1_last' = "busy" => hw1_state' = "polling"]_vars

\* a step of the stream that ends a connection with a failure
Hw2FailureStep == hw2_trace' # hw2_trace /\ LastEvent(hw2_trace')[1] = "fail"

C36_SilentPortNeverReturns ==
    cd_silent => /\ cd_last \in {"none", "skipped"}
                 /\ ser_reads = 0
                 /\ ser_consecutive_errors = 0
                 /\ ser_state = "streaming"
                 /\ cd_returned = <<>>

C36_Witness == cd_silent /\ cd_lines = MaxLines /\ cd_last = "skipped"

(***************************************************************************)
(* Telegram framing.                                                       *)
(***************************************************************************)
\* a '/' line, then lines that start with neither '/' nor '!', then a '!' line
Framed(telegram) ==
    /\ Len(telegram) >= 2
    /\ StartsWith(telegram[1], 47)
    /\ StartsWith(telegram[Len(telegram)], 33)
    /\ \A i \in 2..(Len(telegram) - 1) :
           ~StartsWith(telegram[i], 47) /\ ~StartsWith(telegram[i], 33)

\* C37: every telegram _read_telegram returns starts with a '/' line, ends
\* with a '!' line, has no other '/' or '!' line and a CRC that validates;
\* a line read while Idle that is no '/' line is not collected, and a '/'
\* line restarts the collection from that line, whatever was collected.
C37_TelegramFraming ==
    /\ [](cd_returned /= <<>> => Framed(cd_returned) /\ _validate_crc(cd_returned))
    /\ [](~cd_in_telegram => cd_telegram = <<>>)
    /\ [][(cd_lines' /= cd_lines /\ ~cd_in_telegram /\ cd_last' /= "start")
           => /\ cd_telegram' = <<>>
              /\ ~cd_in_telegram'
              /\ UNCHANGED cd_returned]_vars
    /\ [][(cd_lines' /= cd_lines /\ cd_last' = "start")
           => /\ cd_in_telegram'
              /\ Len(cd_telegram') = 1
              /\ StartsWith(cd_telegram'[1], 47)]_vars

\* a telegram of two lines is returned at the fifth line read, after four
\* lines were kept: a line was passed over, and a second '/' line dropped
\* the two lines collected before it
C37_Witness ==
    /\ cd_last = "telegram"
    /\ cd_lines = 5
    /\ Len(cd_epoch) = 4
    /\ Len(cd_returned) = 2

(***************************************************************************)
(* Sink: the endpoint after a re-discovery that found no device.           *)
(***************************************************************************)
\* task t begins a re-discovery in this step
StartsRediscovery(t) ==
    lm_pc[t] /= "rediscovering" /\ lm_pc'[t] = "rediscovering"

\* get_url returns to task t in this step
GetsUrl(t) == lm_pc[t] \in {"idle", "discovering"} /\ lm_pc'[t] = "posting"

\* C38: once a re-discovery has found no device, the cached address stays
\* cleared (can_rediscover() stays false), no discovery or re-discovery is
\* attempted again, and every push is sent to the configured url.
C38_Original ==
    /\ [](lm_lost => ~can_rediscover(lm_discovered_ip))
    /\ [][lm_lost => /\ lm_discoveries' = lm_discoveries
                     /\ \A t \in Tasks :
                            /\ ~StartsRediscovery(t)
                            /\ GetsUrl(t) => lm_url'[t] = LAMETRIC_URL]_vars

\* what the URL manager does: a re-discovery that finds nothing clears the
\* cached address; while it is cleared a push gets the configured url and
\* no re-discovery begins; only a re-discovery that the other task had
\* begun before, and that finds a device, caches an address again; the
\* first discovery is never repeated
C38_ClearedUntilPendingRediscoveryFinds ==
    /\ [][\A t \in Tasks :
            (lm_pc[t] = "rediscovering" /\ lm_pc'[t] = "idle")
            => ~can_rediscover(lm_discovered_ip')]_vars
    /\ [][~can_rediscover(lm_discovered_ip)
           => \A t \in Tasks :
                 /\ ~StartsRediscovery(t)
                 /\ (lm_pc[t] = "idle" /\ GetsUrl(t)) => lm_url'[t] = LAMETRIC_URL]_vars
    /\ [][(lm_lost /\ ~can_rediscover(lm_discovered_ip)
            /\ can_rediscover(lm_discovered_ip'))
           => \E t \in Tasks :
                 lm_pc[t] = "rediscovering" /\ lm_pc'[t] = "retrying"]_vars
    /\ [][lm_lost => lm_discoveries' = lm_discoveries]_vars

\* a re-discovery found nothing, and a later push of the same task, whose
\* POST could not connect, ended without another re-discovery
C38_Witness ==
    /\ lm_lost
    /\ lm_discovered_ip = None
    /\ \E t \in Tasks :
           /\ lm_pushes[t] = 2
           /\ lm_pc[t] = "idle"
           /\ lm_first[t] = "connection_error"
           /\ lm_url[t] = LAMETRIC_URL
           /\ lm_rediscoveries[t] = 0

(***************************************************************************)
(* Sink: a push that fails ends where it was called.                       *)
(***************************************************************************)
\* C39: send_http_payload returns normally whatever fails (key or url
\* missing, connection error, other error of the POST, re-discovery that
\* finds nothing, retry that fails), and the task can push again; without
\* the key no discovery is made and nothing is posted.
C39_FailedPushReturns ==
    /\ [](\A t \in Tasks :
            /\ lm_ended[t] /= "raised"
            /\ (lm_pc[t] = "idle" /\ lm_pushes[t] > 0) => lm_ended[t] = "returned")
    /\ [](~lm_api_key =>
            /\ ~lm_discovery_attempted
            /\ lm_discoveries = 0
            /\ \A t \in Tasks : lm_pc[t] = "idle" /\ lm_posts[t] = 0)
    /\ [][\A t \in Tasks :
            (lm_pushes'[t] /= lm_pushes[t] /\ ~lm_api_key) => UNCHANGED lm_posts]_vars

\* a push whose POST could not connect and whose re-discovery found no
\* device has returned
C39_Witness ==
    /\ lm_api_key /\ lm_base_url
    /\ \E t \in Tasks :
           /\ lm_pc[t] = "idle"
           /\ lm_first[t] = "connection_error"
           /\ lm_found[t] = None
           /\ lm_ended[t] = "returned"

(***************************************************************************)
(* Async mDNS browse: handler tasks that finish one after the other.       *)
(***************************************************************************)
\* the address of the first advertisement that resolved
RECURSIVE FirstResolvedIp(_)
FirstResolvedIp(ads) ==
    IF ads = <<>> THEN None
    ELSE IF Head(ads).resolves THEN Head(ads).ip
    ELSE FirstResolvedIp(Tail(ads))

\* C40: when several advertisements are resolved by handler tasks that run
\* concurrently, discover_homewizard returns the address of the first one
\* that resolved; a handler that finishes after found_event was set and
\* before the waiter goes on does not change the address returned.
C40_Original ==
    /\ md_pc = "done" => md_result = FirstResolvedIp(md_ads)
    /\ (md_pc = "closing" /\ FirstResolvedIp(md_ads) /= None)
       => md_discovered_ip = FirstResolvedIp(md_ads)
====
